---- MODULE Spec2Model ----
(***************************************************************************)
(* Model of the prompt-compare evaluation pipeline:                        *)
(*   - EnhancedLinkValidator (src/src/enhanced_link_validation.py):        *)
(*     the single-attempt prober and the retry loop around it;             *)
(*   - MultiPromptEvaluator (src/src/multi_prompt_evaluator.py) with       *)
(*     APITester.run_test_suite (src/src/api_test_harness.py): the         *)
(*     operator-gated loop over prompt versions.                           *)
(* SpecLink runs one validate_single_link call, SpecPool one               *)
(* validate_links call, SpecEval one run_multi_prompt_evaluation call,     *)
(* SpecExtract one extract_links call and a second one on its output,      *)
(* SpecSummary one generate_comparison_summary call, SpecE2E main on two   *)
(* prompt versions whose links all answer 200 or all answer 404,           *)
(* SpecRetry one validate_single_link call with up to MaxRetriesLong       *)
(* attempts against servers that answer, SpecLive the evaluation with its  *)
(* loops scheduled fairly, SpecSuite the evaluation with the question      *)
(* loop taken in three steps (post, answer, save).                         *)
(***************************************************************************)
EXTENDS Integers, Sequences, FiniteSets, TLC

VARIABLES
    \* ---- EnhancedLinkValidator.validate_single_link ----
    max_retries,      \* self.max_retries
    url,              \* the url argument (a sequence of characters)
    net,              \* which answers the servers of this run can give
    vpc,              \* position in validate_single_link
    attempt,          \* loop variable of the retry loop
    best_result,      \* local best_result
    returned,         \* value returned by validate_single_link
    vlog,             \* history: prober calls and backoff sleeps, in order
    \* ---- MultiPromptEvaluator.run_multi_prompt_evaluation ----
    pc,               \* position in run_multi_prompt_evaluation
    prompt_versions,  \* the prompt_versions argument
    nquestions,       \* len(questions)
    i,                \* loop variable over prompt_versions (1-based)
    session_versions, \* current_session.prompt_versions
    session_results,  \* current_session.results
    all_results,      \* local all_results
    retval,           \* value returned by run_multi_prompt_evaluation
    qi,               \* loop variable of run_test_suite (1-based)
    db_results,       \* rows saved for the running test session
    detailed_results, \* local detailed_results of run_single_prompt_evaluation
    reprompts,        \* unrecognised inputs answered at the current gate
    elog,             \* history: gates, API calls, validations, records
    summary,          \* what generate_comparison_summary returned to main
    web,              \* per version, what the links of its responses can do
    api_call,         \* the questions posted to the API and not yet answered,
                      \* and the TestResult not yet saved
    \* ---- EnhancedLinkValidator.validate_links ----
    max_workers,      \* self.max_workers
    show_progress,    \* the show_progress argument
    urls,             \* the urls argument
    ppc,              \* position of the calling thread in validate_links
    pool_size,        \* workers of the executor, 0 while there is none
    tasks,            \* the submitted futures, in submission order
    collected,        \* futures as_completed has yielded
    results,          \* local results
    \* ---- EnhancedLinkValidator.extract_links ----
    text,             \* the text argument
    xpc,              \* idle, extracted, re-extracted
    links,            \* what extract_links(text) returned
    relinks           \* what extract_links returned for the text made of links

linkVars == <<max_retries, url, net, vpc, attempt, best_result, returned, vlog>>
evalVars == <<pc, prompt_versions, nquestions, i, session_versions,
              session_results, all_results, retval, qi, db_results,
              detailed_results, reprompts, elog, summary, web, api_call>>
poolVars == <<max_workers, show_progress, urls, ppc, pool_size, tasks,
              collected, results>>
extractVars == <<text, xpc, links, relinks>>
vars == <<max_retries, url, net, vpc, attempt, best_result, returned, vlog,
          pc, prompt_versions, nquestions, i, session_versions,
          session_results, all_results, retval, qi, db_results,
          detailed_results, reprompts, elog, summary, web, api_call,
          max_workers, show_progress, urls, ppc, pool_size, tasks,
          collected, results, text, xpc, links, relinks>>

(***************************************************************************)
(* Bounds of the model.                                                    *)
(***************************************************************************)
MaxRetriesBound == 2

\* EnhancedLinkValidator.__init__: max_retries=2
DefaultMaxRetries == 2

(***************************************************************************)
(* Python's None, for results and for the optional fields of a result.     *)
(***************************************************************************)
None == [none |-> TRUE]
NoCode == 0
NoError == <<>>

(***************************************************************************)
(* URLs are sequences of one-character strings.                            *)
(***************************************************************************)
UrlOk == <<"h", ":", "/", "/", "a", ".", "b">>
UrlMoved == <<"h", ":", "/", "/", "b", ".", "a", "/", "x">>
UrlNoScheme == <<"/", "/", "a", ".", "b">>
UrlNoHost == <<"h", ":", "a", ".", "b">>
UrlBare == <<"a", ".", "b">>
UrlBadBracket == <<"h", ":", "/", "/", "[", "a">>
Urls == {UrlOk, UrlNoScheme, UrlNoHost, UrlBare, UrlBadBracket}

\* str.lower on one character, by position in the alphabet
AsciiLower == <<"a", "b", "c", "d", "e", "f", "g", "h", "i", "j", "k", "l", "m", "n", "o", "p", "q", "r", "s", "t", "u", "v", "w", "x", "y", "z">>
AsciiUpper == <<"A", "B", "C", "D", "E", "F", "G", "H", "I", "J", "K", "L", "M", "N", "O", "P", "Q", "R", "S", "T", "U", "V", "W", "X", "Y", "Z">>

lower(c) ==
    IF \E k \in 1..Len(AsciiUpper) : AsciiUpper[k] = c
    THEN AsciiLower[CHOOSE k \in 1..Len(AsciiUpper) : AsciiUpper[k] = c]
    ELSE c

Letters == {AsciiLower[k] : k \in 1..Len(AsciiLower)} \cup {AsciiUpper[k] : k \in 1..Len(AsciiUpper)}
SchemeChars == Letters \cup {"+", "-", "."}

\* str.find: the first index holding c, 0 when there is none
find(s, c) ==
    IF \E k \in 1..Len(s) : s[k] = c
    THEN CHOOSE k \in 1..Len(s) : s[k] = c /\ \A j \in 1..(k - 1) : s[j] # c
    ELSE 0

\* the end of the netloc that starts at index 3: the first of / ? # or the end
netlocEnd(s) ==
    IF \E k \in 3..Len(s) : s[k] \in {"/", "?", "#"}
    THEN CHOOSE k \in 3..Len(s) :
            /\ s[k] \in {"/", "?", "#"}
            /\ \A j \in 3..(k - 1) : s[j] \notin {"/", "?", "#"}
    ELSE Len(s) + 1

\* urllib.parse.urlparse as far as the prober uses it: scheme, netloc, and
\* the ValueError it raises on an unbalanced bracket in the netloc
urlparse(u) ==
    LET c == find(u, ":")
        hasScheme == /\ c > 1
                     /\ u[1] \in Letters
                     /\ \A k \in 1..(c - 1) : u[k] \in SchemeChars
        scheme == IF hasScheme THEN SubSeq(u, 1, c - 1) ELSE <<>>
        rest == IF hasScheme THEN SubSeq(u, c + 1, Len(u)) ELSE u
        hasNetloc == Len(rest) >= 2 /\ rest[1] = "/" /\ rest[2] = "/"
        netloc == IF hasNetloc THEN SubSeq(rest, 3, netlocEnd(rest) - 1) ELSE <<>>
        has(ch) == \E k \in 1..Len(netloc) : netloc[k] = ch
    IN  [scheme |-> scheme, netloc |-> netloc,
         raises |-> hasNetloc /\ (has("[") # has("]"))]

(***************************************************************************)
(* extract_links: the two patterns, the cleaning and the deduplication     *)
(***************************************************************************)
Digits == {"0", "1", "2", "3", "4", "5", "6", "7", "8", "9"}
\* \w, on the characters the texts are made of
WordChars == Letters \cup Digits \cup {"_"}
\* [-\w.]
HostChars == WordChars \cup {"-", "."}
\* [\da-fA-F]
HexChars == Digits \cup {"a", "b", "c", "d", "e", "f", "A", "B", "C", "D", "E", "F"}
\* [-\w%!./?=&+#]
PathChars == WordChars \cup {"-", "%", "!", ".", "/", "?", "=", "&", "+", "#"}
\* the characters stripped from the right edge of a link
TrailingPunctuation == {".", ",", ":", ";", "!", "?", ")", "]", "}", ">", "\"", "'"}

\* s[p] when there is such a character
at(s, p) == IF p >= 1 /\ p <= Len(s) THEN s[p] ELSE "none"

\* lit is read at index p of s, whatever the case (re.IGNORECASE)
matchLiteral(s, p, lit) ==
    \A k \in 1..Len(lit) : lower(at(s, p + k - 1)) = lit[k]

\* the index after the longest run of host items from p: a character of
\* [-\w.], or with pct a % and two hex digits
RECURSIVE hostEnd(_, _, _)
hostEnd(s, p, pct) ==
    IF at(s, p) \in HostChars THEN hostEnd(s, p + 1, pct)
    ELSE IF pct /\ at(s, p) = "%" /\ at(s, p + 1) \in HexChars /\ at(s, p + 2) \in HexChars
    THEN hostEnd(s, p + 3, pct)
    ELSE p

RECURSIVE pathEnd(_, _)
pathEnd(s, p) == IF at(s, p) \in PathChars THEN pathEnd(s, p + 1) ELSE p

\* (?:/[-\w%!./?=&+#]*)* from index p: the class holds the slash, so the
\* first group takes every path character that follows
pathsEnd(s, p) == IF at(s, p) = "/" THEN pathEnd(s, p + 1) ELSE p

\* the index after the match of pattern k that starts at p, 0 when pattern
\* k does not match at p
matchAt(s, p, k) ==
    LET h == IF k = 1
             THEN IF matchLiteral(s, p, <<"h", "t", "t", "p", "s", ":", "/", "/">>) THEN p + 8
                  ELSE IF matchLiteral(s, p, <<"h", "t", "t", "p", ":", "/", "/">>) THEN p + 7
                  ELSE 0
             ELSE IF matchLiteral(s, p, <<"w", "w", "w", ".">>) THEN p + 4 ELSE 0
        e == hostEnd(s, h, k = 1)
    IN  IF h = 0 \/ e = h THEN 0 ELSE pathsEnd(s, e)

\* re.findall(pattern k, s) from index p on: the matches, left to right and
\* not overlapping, each with the index it starts at
RECURSIVE findall(_, _, _)
findall(s, p, k) ==
    IF p > Len(s) THEN <<>>
    ELSE IF matchAt(s, p, k) > 0
    THEN <<[start |-> p, link |-> SubSeq(s, p, matchAt(s, p, k) - 1)]>>
            \o findall(s, matchAt(s, p, k), k)
    ELSE findall(s, p + 1, k)

\* link.startswith('www.'), case as written
startswithWww(link) ==
    Len(link) >= 4 /\ SubSeq(link, 1, 4) = <<"w", "w", "w", ".">>

RECURSIVE rstrip(_)
rstrip(link) ==
    IF link # <<>> /\ link[Len(link)] \in TrailingPunctuation
    THEN rstrip(SubSeq(link, 1, Len(link) - 1))
    ELSE link

clean(link) ==
    rstrip(IF startswithWww(link) THEN <<"h", "t", "t", "p", "s", ":", "/", "/">> \o link ELSE link)

keep_NoLengthCheck(link) ==
    link # <<>> /\ \E k \in 1..Len(link) : link[k] = "."

\* if link and len(link) > 10 and '.' in link
keep(link) ==
    link # <<>> /\ Len(link) > 10 /\ \E k \in 1..Len(link) : link[k] = "."

\* all_links: the matches of the first pattern, then those of the second
all_links(s) == findall(s, 1, 1) \o findall(s, 1, 2)

cleaned_links(s) ==
    LET cl == [k \in 1..Len(all_links(s)) |-> clean(all_links(s)[k].link)]
    IN  SelectSeq(cl, keep)

RECURSIVE unique(_, _)
unique(ls, seen) ==
    IF ls = <<>> THEN <<>>
    ELSE IF Head(ls) \in seen THEN unique(Tail(ls), seen)
    ELSE <<Head(ls)>> \o unique(Tail(ls), seen \cup {Head(ls)})

extract_links(s) == unique(cleaned_links(s), {})

\* the pieces the texts are made of
TokScheme == <<"h", "t", "t", "p", ":", "/", "/", "a", ".", "b", "c", "/", "d">>
TokWww == <<"w", "w", "w", ".", "a", "b", ".", "c", "d">>
TokSchemeWww == <<"h", "t", "t", "p", "s", ":", "/", "/", "w", "w", "w", ".", "a", "b", ".", "c", "d">>
TokPeriod == <<"h", "t", "t", "p", ":", "/", "/", "a", ".", "b", "c", "/", "d", ".">>
TokShort == <<"h", "t", "t", "p", ":", "/", "/", "a", ".", "b">>
TokNoDot == <<"h", "t", "t", "p", ":", "/", "/", "l", "o", "c", "a", "l", "h", "o", "s", "t">>
TokCapital == <<"W", "w", "w", ".", "A", "b", ".", "C", "d", ".", "e", "f">>
Tokens == {TokScheme, TokWww, TokSchemeWww, TokPeriod, TokShort, TokNoDot, TokCapital}

\* the pieces of ts, one space between two of them
RECURSIVE join(_)
join(ts) ==
    IF ts = <<>> THEN <<>>
    ELSE IF Len(ts) = 1 THEN Head(ts)
    ELSE Head(ts) \o <<" ">> \o join(Tail(ts))

MaxTokens == 2

RECURSIVE TokenLists(_)
TokenLists(n) ==
    IF n = 0 THEN {<<>>}
    ELSE TokenLists(n - 1) \cup
         {Append(l, t) : l \in {c \in TokenLists(n - 1) : Len(c) = n - 1}, t \in Tokens}

Texts == {join(l) : l \in TokenLists(MaxTokens)}

\* links = extract_links(text)
ExtractLinks ==
    /\ xpc = "idle"
    /\ links' = extract_links(text)
    /\ xpc' = "extracted"
    /\ UNCHANGED <<text, relinks>>
    /\ UNCHANGED <<linkVars, evalVars, poolVars>>

\* extract_links again, on the text made of the links just returned
ReExtractLinks ==
    /\ xpc = "extracted"
    /\ relinks' = extract_links(join(links))
    /\ xpc' = "re-extracted"
    /\ UNCHANGED <<text, links>>
    /\ UNCHANGED <<linkVars, evalVars, poolVars>>

(***************************************************************************)
(* What one HTTP request can do: answer with a status, or raise.           *)
(***************************************************************************)
Codes == {200, 301, 400, 403, 404, 429, 500, 503}
ExcTypes == {"ConnectionError", "RuntimeError"}
Responses ==
    [kind : {"response"}, status_code : Codes, redirects : {0}]
        \cup {[kind |-> "response", status_code |-> 200, redirects |-> 1]}
Raises == [kind : {"raise"}, exc : ExcTypes]
Outcomes == Responses \cup Raises
Ok200 == [kind |-> "response", status_code |-> 200, redirects |-> 0]
NotFound404 == [kind |-> "response", status_code |-> 404, redirects |-> 0]
Unavailable503 == [kind |-> "response", status_code |-> 503, redirects |-> 0]
\* the answers a request can get, by the kind of network: any answer, or
\* servers that are up and answer 200, 404 or 503
Network == [any |-> Outcomes, plain |-> {Ok200, NotFound404, Unavailable503}]
\* the milliseconds a call that went to the network measures
Latencies == {7}

\* response.url: the requested url unless redirects were followed
finalUrl(u, out) == IF out.redirects = 0 THEN u ELSE UrlMoved

(***************************************************************************)
(* validate_single_link_attempt                                            *)
(***************************************************************************)
\* classify without its 429 branch
classify_No429(code, method_name) ==
    IF code < 400 THEN [status |-> "valid", error |-> NoError, continue |-> FALSE]
    ELSE IF code = 404 THEN
        IF method_name = "HEAD"
        THEN [status |-> "none", error |-> NoError, continue |-> TRUE]
        ELSE [status |-> "invalid", error |-> <<"Page not found (404)">>, continue |-> FALSE]
    ELSE IF code = 403 THEN
        IF method_name = "HEAD"
        THEN [status |-> "none", error |-> NoError, continue |-> TRUE]
        ELSE [status |-> "warning", error |-> <<"Access forbidden (403)">>, continue |-> FALSE]
    ELSE IF code >= 500 THEN
        [status |-> "warning", error |-> <<"Server error", ToString(code)>>, continue |-> FALSE]
    ELSE [status |-> "invalid", error |-> <<"HTTP error", ToString(code)>>, continue |-> FALSE]

\* classify without the escalation of a 404 answered to HEAD
classify_Head404Final(code, method_name) ==
    IF code < 400 THEN [status |-> "valid", error |-> NoError, continue |-> FALSE]
    ELSE IF code = 404 THEN
        [status |-> "invalid", error |-> <<"Page not found (404)">>, continue |-> FALSE]
    ELSE IF code = 403 THEN
        IF method_name = "HEAD"
        THEN [status |-> "none", error |-> NoError, continue |-> TRUE]
        ELSE [status |-> "warning", error |-> <<"Access forbidden (403)">>, continue |-> FALSE]
    ELSE IF code = 429 THEN
        [status |-> "warning", error |-> <<"Rate limited (429)">>, continue |-> FALSE]
    ELSE IF code >= 500 THEN
        [status |-> "warning", error |-> <<"Server error", ToString(code)>>, continue |-> FALSE]
    ELSE [status |-> "invalid", error |-> <<"HTTP error", ToString(code)>>, continue |-> FALSE]

\* classify with a 404 answered to GET taken for a warning
classify_404Warning(code, method_name) ==
    IF code < 400 THEN [status |-> "valid", error |-> NoError, continue |-> FALSE]
    ELSE IF code = 404 THEN
        IF method_name = "HEAD"
        THEN [status |-> "none", error |-> NoError, continue |-> TRUE]
        ELSE [status |-> "warning", error |-> <<"Page not found (404)">>, continue |-> FALSE]
    ELSE IF code = 403 THEN
        IF method_name = "HEAD"
        THEN [status |-> "none", error |-> NoError, continue |-> TRUE]
        ELSE [status |-> "warning", error |-> <<"Access forbidden (403)">>, continue |-> FALSE]
    ELSE IF code = 429 THEN
        [status |-> "warning", error |-> <<"Rate limited (429)">>, continue |-> FALSE]
    ELSE IF code >= 500 THEN
        [status |-> "warning", error |-> <<"Server error", ToString(code)>>, continue |-> FALSE]
    ELSE [status |-> "invalid", error |-> <<"HTTP error", ToString(code)>>, continue |-> FALSE]

\* the if/elif chain on response.status_code; continue = try the next method
classify(code, method_name) ==
    IF code < 400 THEN [status |-> "valid", error |-> NoError, continue |-> FALSE]
    ELSE IF code = 404 THEN
        IF method_name = "HEAD"
        THEN [status |-> "none", error |-> NoError, continue |-> TRUE]
        ELSE [status |-> "invalid", error |-> <<"Page not found (404)">>, continue |-> FALSE]
    ELSE IF code = 403 THEN
        IF method_name = "HEAD"
        THEN [status |-> "none", error |-> NoError, continue |-> TRUE]
        ELSE [status |-> "warning", error |-> <<"Access forbidden (403)">>, continue |-> FALSE]
    ELSE IF code = 429 THEN
        [status |-> "warning", error |-> <<"Rate limited (429)">>, continue |-> FALSE]
    ELSE IF code >= 500 THEN
        [status |-> "warning", error |-> <<"Server error", ToString(code)>>, continue |-> FALSE]
    ELSE [status |-> "invalid", error |-> <<"HTTP error", ToString(code)>>, continue |-> FALSE]

\* the result returned from inside the method loop
responseResult(u, att, method_name, out, t) ==
    LET c == classify(out.status_code, method_name)
    IN  [url |-> u, status |-> c.status, status_code |-> out.status_code,
         error |-> c.error, response_time_ms |-> t,
         final_url |-> finalUrl(u, out), redirects |-> out.redirects,
         method_used |-> method_name, attempt |-> att]

\* a failure taken for a warning
failureResult_Warning(u, att, err, t) ==
    [url |-> u, status |-> "warning", status_code |-> NoCode, error |-> err,
     response_time_ms |-> t, final_url |-> u, redirects |-> 0, attempt |-> att]

\* the results that carry no response
failureResult(u, att, err, t) ==
    [url |-> u, status |-> "invalid", status_code |-> NoCode, error |-> err,
     response_time_ms |-> t, final_url |-> u, redirects |-> 0, attempt |-> att]

\* an exception that leaves a function instead of a result
Raised(exc) == [status |-> "raised", exc |-> exc]

methods_to_try_HeadOnly == <<"HEAD">>

\* the full retrieval tried first
methods_to_try_GetFirst == <<"GET", "HEAD">>

methods_to_try == <<"HEAD", "GET">>

\* the for loop over methods_to_try, from method number k on; outs[m] is what
\* the request of method m does when it is issued.  requests lists the
\* requests issued, each with what it did
RECURSIVE tryMethods(_, _, _, _, _, _)
tryMethods(k, u, att, outs, t, last_exception) ==
    IF k > Len(methods_to_try)
    THEN [requests |-> <<>>,
          result |-> failureResult(u, att, <<"Connection failed", last_exception>>, t)]
    ELSE
        LET m == methods_to_try[k]
            out == outs[m]
            req == <<[method |-> m, out |-> out]>>
            next(le) == tryMethods(k + 1, u, att, outs, t, le)
        IN  IF out.kind = "raise"
            THEN [requests |-> req \o next(out.exc).requests,
                  result |-> next(out.exc).result]
            ELSE IF classify(out.status_code, m).continue
            THEN [requests |-> req \o next(last_exception).requests,
                  result |-> next(last_exception).result]
            ELSE [requests |-> req, result |-> responseResult(u, att, m, out, t)]

attemptBody_NoFormatCheck(u, att, outs, t) ==
    LET parsed == urlparse(u)
    IN  IF parsed.raises
        THEN [requests |-> <<>>, result |-> Raised("ValueError")]
        ELSE tryMethods(1, u, att, outs, t, "None")

\* the body of the outer try
attemptBody(u, att, outs, t) ==
    LET parsed == urlparse(u)
    IN  IF parsed.raises
        THEN [requests |-> <<>>, result |-> Raised("ValueError")]
        ELSE IF parsed.scheme = <<>> \/ parsed.netloc = <<>>
        THEN [requests |-> <<>>,
              result |-> failureResult(u, att, <<"Invalid URL format">>, 0)]
        ELSE tryMethods(1, u, att, outs, t, "None")

\* no outer handler: the exception leaves the prober
outerExcept_Reraise(u, att, exc, t) == Raised(exc)

\* the outer except Exception: what becomes of an exception of the body
outerExcept(u, att, exc, t) ==
    failureResult(u, att, <<"Validation error", exc>>, t)

\* one prober call: the requests it issued and the result it returned
validate_single_link_attempt(u, att, outs, t) ==
    LET body == attemptBody(u, att, outs, t)
    IN  IF body.result.status = "raised"
        THEN [requests |-> body.requests,
              result |-> outerExcept(u, att, body.result.exc, t)]
        ELSE body

(***************************************************************************)
(* validate_single_link                                                    *)
(***************************************************************************)
\* a loop that runs one time too many
inRange_OneMore(att) == att <= max_retries + 1

\* range(1, self.max_retries + 1)
inRange(att) == att <= max_retries

\* no early return on a valid result
shortCircuits_Never(result) == FALSE

\* the early return
shortCircuits(result) == result.status = "valid"

\* the last result always replaces best_result
displaces_LastWins(result, best) == TRUE

\* a result of the same classification replaces best_result too
displaces_OrEqual(result, best) ==
    best = None \/ result.status = best.status
        \/ (result.status = "warning" /\ best.status = "invalid")

\* the test that replaces best_result
displaces(result, best) ==
    best = None \/ (result.status = "warning" /\ best.status = "invalid")

\* the retry loop from attempt att on, for a server that gives the outcomes
\* outs to every attempt: what validate_single_link returns
RECURSIVE retryFrom(_, _, _, _)
retryFrom(u, att, best, outs) ==
    IF ~inRange(att) THEN best
    ELSE LET result == validate_single_link_attempt(
                            u, att, outs, CHOOSE t \in Latencies : TRUE).result
         IN  IF shortCircuits(result) THEN result
             ELSE retryFrom(u, att + 1,
                            IF displaces(result, best) THEN result ELSE best, outs)

validate_single_link(u, outs) == retryFrom(u, 1, None, outs)

\* the test for the backoff sleep
backsOff(att, result) == att < max_retries /\ result.status = "invalid"

\* validate_single_link is entered: best_result = None, the loop starts at 1
CallValidateSingleLink ==
    /\ vpc = "idle"
    /\ vpc' = "loop"
    /\ attempt' = 1
    /\ best_result' = None
    /\ UNCHANGED <<max_retries, url, net, returned, vlog>>
    /\ UNCHANGED <<evalVars, poolVars, extractVars>>

\* one iteration of the retry loop, up to its sleep
Attempt ==
    /\ vpc = "loop"
    /\ inRange(attempt)
    /\ \E head \in Network[net], get \in Network[net], t \in Latencies :
        LET outs == [m \in {"HEAD", "GET"} |-> IF m = "HEAD" THEN head ELSE get]
            call == validate_single_link_attempt(url, attempt, outs, t)
            result == call.result
        IN  /\ vlog' = Append(vlog, [ev |-> "probe", attempt |-> attempt,
                                     requests |-> call.requests, result |-> result])
            /\ IF shortCircuits(result)
               THEN /\ returned' = result
                    /\ vpc' = "returned"
                    /\ UNCHANGED <<best_result, attempt>>
               ELSE /\ best_result' = IF displaces(result, best_result)
                                      THEN result ELSE best_result
                    /\ IF backsOff(attempt, result)
                       THEN vpc' = "sleep" /\ UNCHANGED attempt
                       ELSE vpc' = "loop" /\ attempt' = attempt + 1
                    /\ UNCHANGED returned
    /\ UNCHANGED <<max_retries, url, net>>
    /\ UNCHANGED <<evalVars, poolVars, extractVars>>

\* time.sleep(1) at the end of an iteration
Backoff ==
    /\ vpc = "sleep"
    /\ vlog' = Append(vlog, [ev |-> "sleep", attempt |-> attempt])
    /\ attempt' = attempt + 1
    /\ vpc' = "loop"
    /\ UNCHANGED <<max_retries, url, net, best_result, returned>>
    /\ UNCHANGED <<evalVars, poolVars, extractVars>>

\* the loop is exhausted: return best_result
ReturnBest ==
    /\ vpc = "loop"
    /\ ~inRange(attempt)
    /\ returned' = best_result
    /\ vpc' = "returned"
    /\ UNCHANGED <<max_retries, url, net, attempt, best_result, vlog>>
    /\ UNCHANGED <<evalVars, poolVars, extractVars>>

(***************************************************************************)
(* EnhancedLinkValidator.validate_links: one call, its executor and the  *)
(* validate_single_link tasks it submits                                 *)
(***************************************************************************)

MaxBatch == 2
MaxWorkersBound == 3
DefaultMaxWorkers == 3

BatchUrls == {UrlOk, UrlBare}

\* a call that has not returned
NotReturned == [pending |-> TRUE]

Statuses == {"valid", "warning", "invalid"}

RECURSIVE Batches(_)
Batches(n) ==
    IF n = 0 THEN {<<>>}
    ELSE Batches(n - 1) \cup
         {Append(b, u) : b \in {c \in Batches(n - 1) : Len(c) = n - 1}, u \in BatchUrls}

\* a submitted future: sleeps counts the time.sleep(1) calls of its
\* validate_single_link
Queued == [state |-> "queued", outcome |-> NotReturned, sleeps |-> 0]

\* what future.result() of a task submitted for u does: the value
\* validate_single_link returned (None when its loop has no iteration, the
\* best result otherwise) or an exception raised in the worker
TaskOutcomes(u) ==
    (IF max_retries < 1
     THEN {None}
     ELSE {[url |-> u, status |-> st] : st \in Statuses})
    \cup {Raised("RuntimeError")}

validationFailed(u, exc) ==
    failureResult(u, 1, <<"Validation failed", exc>>, 0)

\* the body of the as_completed loop for one future: the entries it appends
collect_DropsFailure(u, outcome, progress) ==
    IF "status" \in DOMAIN outcome /\ outcome.status = "raised"
    THEN <<>>
    ELSE IF progress /\ outcome = None
         THEN <<outcome>>
         ELSE <<outcome>>

collect(u, outcome, progress) ==
    IF "status" \in DOMAIN outcome /\ outcome.status = "raised"
    THEN <<validationFailed(u, outcome.exc)>>
    ELSE IF progress /\ outcome = None
         THEN <<outcome, validationFailed(u, "TypeError")>>
         ELSE <<outcome>>

\* results after the as_completed loop has yielded the futures of batch in
\* the order given, outs[k] being what the future of batch[k] does
RECURSIVE validate_links_results(_, _, _)
validate_links_results(batch, outs, progress) ==
    IF batch = <<>> THEN <<>>
    ELSE collect(Head(batch), Head(outs), progress)
            \o validate_links_results(Tail(batch), Tail(outs), progress)

executorSize_PerUrl == Len(urls)

executorSize == max_workers

\* the tasks a worker is executing, attempting or in time.sleep(1)
Running == {k \in 1..Len(tasks) : tasks[k].state \in {"running", "backoff"}}

Sleeping == {k \in 1..Len(tasks) : tasks[k].state = "backoff"}

Done == {k \in 1..Len(tasks) : tasks[k].state = "done"}

CallValidateLinks_AlwaysPool ==
    /\ ppc = "idle"
    /\ pool_size' = executorSize
    /\ tasks' = [k \in 1..Len(urls) |-> Queued]
    /\ ppc' = "collecting"
    /\ UNCHANGED <<max_workers, show_progress, urls, collected, results>>
    /\ UNCHANGED <<linkVars, evalVars, extractVars>>

CallValidateLinks ==
    /\ ppc = "idle"
    /\ IF urls = <<>>
       THEN /\ results' = <<>>
            /\ ppc' = "returned"
            /\ UNCHANGED <<pool_size, tasks>>
       ELSE /\ pool_size' = executorSize
            /\ tasks' = [k \in 1..Len(urls) |-> Queued]
            /\ ppc' = "collecting"
            /\ UNCHANGED results
    /\ UNCHANGED <<max_workers, show_progress, urls, collected>>
    /\ UNCHANGED <<linkVars, evalVars, extractVars>>

\* an idle worker of the executor takes the oldest queued task
StartTask ==
    /\ ppc = "collecting"
    /\ Cardinality(Running) < pool_size
    /\ \E k \in 1..Len(tasks) :
        /\ tasks[k].state = "queued"
        /\ \A j \in 1..(k - 1) : tasks[j].state # "queued"
        /\ tasks' = [tasks EXCEPT ![k].state = "running"]
    /\ UNCHANGED <<max_workers, show_progress, urls, ppc, pool_size,
                   collected, results>>
    /\ UNCHANGED <<linkVars, evalVars, extractVars>>

\* an attempt of validate_single_link(urls[k]) was invalid and another
\* remains: the worker enters time.sleep(1)
TaskBackoff ==
    /\ ppc = "collecting"
    /\ \E k \in Running \ Sleeping :
        /\ tasks[k].sleeps + 1 < max_retries
        /\ tasks' = [tasks EXCEPT ![k].state = "backoff",
                                  ![k].sleeps = tasks[k].sleeps + 1]
    /\ UNCHANGED <<max_workers, show_progress, urls, ppc, pool_size,
                   collected, results>>
    /\ UNCHANGED <<linkVars, evalVars, extractVars>>

\* time.sleep(1) returns in the worker and the next attempt begins
TaskResume ==
    /\ ppc = "collecting"
    /\ \E k \in Sleeping :
        tasks' = [tasks EXCEPT ![k].state = "running"]
    /\ UNCHANGED <<max_workers, show_progress, urls, ppc, pool_size,
                   collected, results>>
    /\ UNCHANGED <<linkVars, evalVars, extractVars>>

\* no probe ends while a worker sleeps
FinishTask_WaitsForSleepers ==
    /\ ppc = "collecting"
    /\ Sleeping = {}
    /\ \E k \in Running \ Sleeping :
        \E outcome \in TaskOutcomes(urls[k]) :
            tasks' = [tasks EXCEPT ![k].state = "done", ![k].outcome = outcome]
    /\ UNCHANGED <<max_workers, show_progress, urls, ppc, pool_size,
                   collected, results>>
    /\ UNCHANGED <<linkVars, evalVars, extractVars>>

\* validate_single_link(urls[k]) ends in its worker
FinishTask ==
    /\ ppc = "collecting"
    /\ \E k \in Running \ Sleeping :
        \E outcome \in TaskOutcomes(urls[k]) :
            tasks' = [tasks EXCEPT ![k].state = "done", ![k].outcome = outcome]
    /\ UNCHANGED <<max_workers, show_progress, urls, ppc, pool_size,
                   collected, results>>
    /\ UNCHANGED <<linkVars, evalVars, extractVars>>

\* as_completed yields a finished future; one pass of the loop body
CollectResult ==
    /\ ppc = "collecting"
    /\ \E k \in Done \ collected :
        /\ results' = results \o collect(urls[k], tasks[k].outcome, show_progress)
        /\ collected' = collected \cup {k}
    /\ UNCHANGED <<max_workers, show_progress, urls, ppc, pool_size, tasks>>
    /\ UNCHANGED <<linkVars, evalVars, extractVars>>

\* results returned without waiting for the futures
ReturnResults_Early ==
    /\ ppc = "collecting"
    /\ ppc' = "returned"
    /\ UNCHANGED <<max_workers, show_progress, urls, pool_size, tasks,
                   collected, results>>
    /\ UNCHANGED <<linkVars, evalVars, extractVars>>

\* every future was yielded: the with block ends and results is returned
ReturnResults ==
    /\ ppc = "collecting"
    /\ collected = 1..Len(tasks)
    /\ ppc' = "returned"
    /\ UNCHANGED <<max_workers, show_progress, urls, pool_size, tasks,
                   collected, results>>
    /\ UNCHANGED <<linkVars, evalVars, extractVars>>

(***************************************************************************)
(* MultiPromptEvaluator: prompt versions, questions, responses            *)
(***************************************************************************)
NumVersions == 2
MaxQuestions == 2
MaxLinks == 1
MaxReprompts == 1

EmptyMap == [k \in {} |-> None]
ApiLatencies == {100}

\* the texts the API answers with: n links, one space between two; a text
\* with no link for n = 0
ResponseLink(k) == TokScheme \o [j \in 1..(k - 1) |-> "e"]
ResponseText(n) ==
    IF n = 0 THEN TokNoDot ELSE join([k \in 1..n |-> ResponseLink(k)])
ResponseTexts == {ResponseText(n) : n \in 0..MaxLinks}

\* extract_links of every text a stored response can hold
extracted == [body \in ResponseTexts \cup {<<>>} |-> extract_links(body)]

\* what one link can do: its server gives the same outcomes to the HEAD and
\* the GET of every attempt, or the worker that probes it raises
Answering(head, get) ==
    [kind |-> "http",
     outs |-> [m \in {"HEAD", "GET"} |-> IF m = "HEAD" THEN head ELSE get]]
WorkerRaises == [kind |-> "raise"]
\* the kinds of link, by name
Does ==
    [always200 |-> Answering(Ok200, Ok200),
     always404 |-> Answering(NotFound404, NotFound404),
     always503 |-> Answering(Unavailable503, Unavailable503),
     raises |-> WorkerRaises]
AnyLink == DOMAIN Does

\* future.result() of validate_single_link(u) for a link of kind d
future_result(u, d) ==
    IF Does[d].kind = "raise" THEN Raised("RuntimeError")
    ELSE validate_single_link(u, Does[d].outs)

\* the prompt versions main() builds: NumVersions of them, distinct ids
PromptVersion(k) == [id |-> k, name |-> k]

RECURSIVE SumOver(_, _)
SumOver(s, field) ==
    IF s = <<>> THEN 0 ELSE Head(s)[field] + SumOver(Tail(s), field)

CountWhere(s, field, value) ==
    Cardinality({k \in 1..Len(s) : s[k][field] = value})

\* APITester.ask_question: the TestResult for what the API did.  An answer
\* other than 200 and an exception both give status error with response "";
\* body is the text the API sent, kept as the response of a 200 answer only
ask_question_KeepsBody(q, ok, body, t) ==
    IF ok
    THEN [question_id |-> q, status |-> "success", response |-> body,
          response_time_ms |-> t, error |-> NoError]
    ELSE [question_id |-> q, status |-> "error", response |-> body,
          response_time_ms |-> t, error |-> <<"HTTP error or exception">>]

ask_question(q, ok, body, t) ==
    IF ok
    THEN [question_id |-> q, status |-> "success", response |-> body,
          response_time_ms |-> t, error |-> NoError]
    ELSE [question_id |-> q, status |-> "error", response |-> <<>>,
          response_time_ms |-> t, error |-> <<"HTTP error or exception">>]

detailed_result_NoWarning(response, link_results) ==
    [question_id |-> response.question_id,
     response_time_ms |-> response.response_time_ms,
     links_found |-> Len(extracted[response.response]),
     links_valid |-> Cardinality({k \in 1..Len(link_results) : link_results[k] = "valid"}),
     links_warning |-> 0,
     links_invalid |-> Cardinality({k \in 1..Len(link_results) : link_results[k] = "invalid"})]

\* one pass of the validation loop of run_single_prompt_evaluation:
\* link_results are the statuses validate_links returned for the response
detailed_result(response, link_results) ==
    [question_id |-> response.question_id,
     response_time_ms |-> response.response_time_ms,
     links_found |-> Len(extracted[response.response]),
     links_valid |-> Cardinality({k \in 1..Len(link_results) : link_results[k] = "valid"}),
     links_warning |-> Cardinality({k \in 1..Len(link_results) : link_results[k] = "warning"}),
     links_invalid |-> Cardinality({k \in 1..Len(link_results) : link_results[k] = "invalid"})]

\* the evaluation_result dict run_single_prompt_evaluation returns
evaluation_result(pv, api_responses, details) ==
    [prompt_version |-> pv,
     total_questions |-> nquestions,
     link_validation_summary |->
        [total_links |-> SumOver(details, "links_found"),
         valid_links |-> SumOver(details, "links_valid"),
         warning_links |-> SumOver(details, "links_warning"),
         invalid_links |-> SumOver(details, "links_invalid"),
         questions_with_invalid_links |->
            Cardinality({k \in 1..Len(details) : details[k].links_invalid > 0})],
     performance_metrics |->
        [avg_response_time_ms |->
            IF details # <<>>
            THEN [num |-> SumOver(details, "response_time_ms"), den |-> Len(details)]
            ELSE [num |-> 0, den |-> 1],
         successful_responses |-> CountWhere(api_responses, "status", "success"),
         failed_responses |-> Len(api_responses) - CountWhere(api_responses, "status", "success")]]

\* all_results[prompt_version.id] = result, when result is truthy
store(res, pv, result) ==
    IF result # None
    THEN [k \in DOMAIN res \cup {pv.id} |-> IF k = pv.id THEN result ELSE res[k]]
    ELSE res

\* a loop over the versions that is never left
LoopTop_NoReturn(k, res, log) ==
    IF k <= Len(prompt_versions)
    THEN /\ pc' = "gate"
         /\ i' = k
         /\ all_results' = res
         /\ UNCHANGED session_results
         /\ elog' = Append(log, [ev |-> "gate", version |-> k, q |-> 0])
         /\ UNCHANGED retval
    ELSE /\ pc' = "looping"
         /\ i' = k
         /\ all_results' = res
         /\ UNCHANGED session_results
         /\ UNCHANGED retval
         /\ elog' = log

\* the top of the for loop with loop variable k and local all_results res:
\* either the next gate is presented, or the loop is over and the results
\* are stored on the session and returned
LoopTop(k, res, log) ==
    IF k <= Len(prompt_versions)
    THEN /\ pc' = "gate"
         /\ i' = k
         /\ all_results' = res
         /\ UNCHANGED session_results
         /\ elog' = Append(log, [ev |-> "gate", version |-> k, q |-> 0])
         /\ UNCHANGED retval
    ELSE /\ pc' = "returned"
         /\ i' = k
         /\ all_results' = res
         /\ session_results' = res
         /\ retval' = res
         /\ elog' = log

\* the end of run_single_prompt_evaluation and the rest of the iteration:
\* the result is stored in all_results, then the inter-prompt delay
FinishVersion(api_responses, details, log) ==
    LET pv == prompt_versions[i]
        result == evaluation_result(pv, api_responses, details)
    IN  LoopTop(i + 1, store(all_results, pv, result),
                Append(log, [ev |-> "record", version |-> i, q |-> 0]))

\* the connectivity check with its answer ignored
TestApiConnection_Unchecked ==
    /\ pc = "start"
    /\ \E ok \in BOOLEAN :
        LoopTop(1, EmptyMap,
                Append(elog, [ev |-> IF ok THEN "connect" ELSE "connect_failed",
                              version |-> 0, q |-> 0]))
    /\ reprompts' = 0
    /\ UNCHANGED <<prompt_versions, nquestions, session_versions, qi,
                   db_results, detailed_results>>
    /\ UNCHANGED <<summary, web, api_call>>
    /\ UNCHANGED <<linkVars, poolVars, extractVars>>

\* the connectivity check that gates the whole run
TestApiConnection ==
    /\ pc = "start"
    /\ \E ok \in BOOLEAN :
        IF ok
        THEN /\ LoopTop(1, EmptyMap, Append(elog, [ev |-> "connect", version |-> 0, q |-> 0]))
        ELSE /\ pc' = "returned"
             /\ retval' = None
             /\ elog' = Append(elog, [ev |-> "connect_failed", version |-> 0, q |-> 0])
             /\ UNCHANGED <<i, all_results, session_results>>
    /\ reprompts' = 0
    /\ UNCHANGED <<prompt_versions, nquestions, session_versions, qi,
                   db_results, detailed_results>>
    /\ UNCHANGED <<summary, web, api_call>>
    /\ UNCHANGED <<linkVars, poolVars, extractVars>>

\* the operator presses ENTER: the version is appended to the session and
\* run_test_suite starts on it
GateProceed ==
    /\ pc = "gate"
    /\ session_versions' = Append(session_versions, prompt_versions[i])
    /\ db_results' = <<>>
    /\ detailed_results' = <<>>
    /\ reprompts' = 0
    /\ IF nquestions > 0
       THEN /\ pc' = "asking"
            /\ qi' = 1
            /\ elog' = Append(elog, [ev |-> "proceed", version |-> i, q |-> 0])
            /\ UNCHANGED <<i, all_results, session_results, retval>>
       ELSE /\ qi' = 1
            /\ FinishVersion(<<>>, <<>>,
                             Append(elog, [ev |-> "proceed", version |-> i, q |-> 0]))
    /\ UNCHANGED <<prompt_versions, nquestions>>
    /\ UNCHANGED <<summary, web, api_call>>
    /\ UNCHANGED <<linkVars, poolVars, extractVars>>

\* skip placed after the append to the completed list
GateSkip_Appends ==
    /\ pc = "gate"
    /\ reprompts' = 0
    /\ session_versions' = Append(session_versions, prompt_versions[i])
    /\ LoopTop(i + 1, all_results, Append(elog, [ev |-> "skip", version |-> i, q |-> 0]))
    /\ UNCHANGED <<prompt_versions, nquestions, qi, db_results, detailed_results>>
    /\ UNCHANGED <<summary, web, api_call>>
    /\ UNCHANGED <<linkVars, poolVars, extractVars>>

\* skip taken for proceed: the version is evaluated all the same
GateSkip_RunsVersion ==
    /\ pc = "gate"
    /\ reprompts' = 0
    /\ db_results' = <<>>
    /\ detailed_results' = <<>>
    /\ qi' = 1
    /\ IF nquestions > 0
       THEN /\ pc' = "asking"
            /\ elog' = Append(elog, [ev |-> "skip", version |-> i, q |-> 0])
            /\ UNCHANGED <<i, all_results, session_results, retval>>
       ELSE FinishVersion(<<>>, <<>>,
                          Append(elog, [ev |-> "skip", version |-> i, q |-> 0]))
    /\ UNCHANGED <<prompt_versions, nquestions, session_versions>>
    /\ UNCHANGED <<summary, web, api_call>>
    /\ UNCHANGED <<linkVars, poolVars, extractVars>>

\* the operator types skip: continue with the next version
GateSkip ==
    /\ pc = "gate"
    /\ reprompts' = 0
    /\ LoopTop(i + 1, all_results, Append(elog, [ev |-> "skip", version |-> i, q |-> 0]))
    /\ UNCHANGED <<prompt_versions, nquestions, session_versions, qi,
                   db_results, detailed_results>>
    /\ UNCHANGED <<summary, web, api_call>>
    /\ UNCHANGED <<linkVars, poolVars, extractVars>>

\* the operator types quit: sys.exit(0) unwinds run_multi_prompt_evaluation,
\* its local all_results goes with the frame
GateQuit ==
    /\ pc = "gate"
    /\ pc' = "exited"
    /\ all_results' = EmptyMap
    /\ elog' = Append(elog, [ev |-> "quit", version |-> i, q |-> 0])
    /\ UNCHANGED <<prompt_versions, nquestions, i, session_versions,
                   session_results, retval, qi, db_results, detailed_results,
                   reprompts>>
    /\ UNCHANGED <<summary, web, api_call>>
    /\ UNCHANGED <<linkVars, poolVars, extractVars>>

\* any other input taken for ENTER
GateReprompt_ReturnsTrue ==
    /\ pc = "gate"
    /\ reprompts < MaxReprompts
    /\ reprompts' = reprompts + 1
    /\ nquestions > 0
    /\ pc' = "asking"
    /\ qi' = 1
    /\ session_versions' = Append(session_versions, prompt_versions[i])
    /\ db_results' = <<>>
    /\ detailed_results' = <<>>
    /\ UNCHANGED <<prompt_versions, nquestions, i, session_results,
                   all_results, retval, elog>>
    /\ UNCHANGED <<summary, web, api_call>>
    /\ UNCHANGED <<linkVars, poolVars, extractVars>>

\* any other input: the warning is printed and input() is called again
GateReprompt ==
    /\ pc = "gate"
    /\ reprompts < MaxReprompts
    /\ reprompts' = reprompts + 1
    /\ UNCHANGED <<pc, prompt_versions, nquestions, i, session_versions,
                   session_results, all_results, retval, qi, db_results,
                   detailed_results, elog>>
    /\ UNCHANGED <<summary, web, api_call>>
    /\ UNCHANGED <<linkVars, poolVars, extractVars>>

\* the loop left at the first failed call
AskQuestion_HaltOnError ==
    /\ pc = "asking"
    /\ \E ok \in BOOLEAN, body \in ResponseTexts, t \in ApiLatencies :
        /\ db_results' = Append(db_results, ask_question(qi, ok, body, t))
        /\ pc' = IF qi < nquestions /\ ok THEN "asking" ELSE "validating"
    /\ elog' = Append(elog, [ev |-> "ask", version |-> i, q |-> qi])
    /\ qi' = qi + 1
    /\ UNCHANGED <<prompt_versions, nquestions, i, session_versions,
                   session_results, all_results, retval, detailed_results,
                   reprompts>>
    /\ UNCHANGED <<summary, web, api_call>>
    /\ UNCHANGED <<linkVars, poolVars, extractVars>>

\* one iteration of run_test_suite: ask, save, delay
AskQuestion ==
    /\ pc = "asking"
    /\ \E ok \in BOOLEAN, body \in ResponseTexts, t \in ApiLatencies :
        /\ db_results' = Append(db_results, ask_question(qi, ok, body, t))
    /\ elog' = Append(elog, [ev |-> "ask", version |-> i, q |-> qi])
    /\ qi' = qi + 1
    /\ pc' = IF qi < nquestions THEN "asking" ELSE "validating"
    /\ UNCHANGED <<prompt_versions, nquestions, i, session_versions,
                   session_results, all_results, retval, detailed_results,
                   reprompts>>
    /\ UNCHANGED <<summary, web, api_call>>
    /\ UNCHANGED <<linkVars, poolVars, extractVars>>

\* every question posted at once
PostQuestion_AllAtOnce ==
    /\ pc = "asking"
    /\ api_call' = [api_call EXCEPT !.in_flight = qi..nquestions]
    /\ pc' = "posted"
    /\ elog' = Append(elog, [ev |-> "post", version |-> i, q |-> qi])
    /\ UNCHANGED <<prompt_versions, nquestions, i, session_versions,
                   session_results, all_results, retval, qi, db_results,
                   detailed_results, reprompts, summary, web>>
    /\ UNCHANGED <<linkVars, poolVars, extractVars>>

\* run_test_suite, step by step.  ask_question posts the question: the call
\* blocks until the API answers or the request fails
PostQuestion ==
    /\ pc = "asking"
    /\ api_call' = [api_call EXCEPT !.in_flight = api_call.in_flight \cup {qi}]
    /\ pc' = "posted"
    /\ elog' = Append(elog, [ev |-> "post", version |-> i, q |-> qi])
    /\ UNCHANGED <<prompt_versions, nquestions, i, session_versions,
                   session_results, all_results, retval, qi, db_results,
                   detailed_results, reprompts, summary, web>>
    /\ UNCHANGED <<linkVars, poolVars, extractVars>>

\* the call returns: ask_question builds the TestResult
QuestionAnswered ==
    /\ pc = "posted"
    /\ qi \in api_call.in_flight
    /\ \E ok \in BOOLEAN, body \in ResponseTexts, t \in ApiLatencies :
        api_call' = [in_flight |-> api_call.in_flight \ {qi},
                     result |-> ask_question(qi, ok, body, t)]
    /\ pc' = "answered"
    /\ elog' = Append(elog, [ev |-> "answer", version |-> i, q |-> qi])
    /\ UNCHANGED <<prompt_versions, nquestions, i, session_versions,
                   session_results, all_results, retval, qi, db_results,
                   detailed_results, reprompts, summary, web>>
    /\ UNCHANGED <<linkVars, poolVars, extractVars>>

\* db.save_result(result), the counters, the delay, and the next iteration
SaveResult ==
    /\ pc = "answered"
    /\ db_results' = Append(db_results, api_call.result)
    /\ api_call' = [api_call EXCEPT !.result = NotReturned]
    /\ elog' = Append(elog, [ev |-> "ask", version |-> i, q |-> qi])
    /\ qi' = qi + 1
    /\ pc' = IF qi < nquestions THEN "asking" ELSE "validating"
    /\ UNCHANGED <<prompt_versions, nquestions, i, session_versions,
                   session_results, all_results, retval, detailed_results,
                   reprompts, summary, web>>
    /\ UNCHANGED <<linkVars, poolVars, extractVars>>

\* one iteration of the validation loop over api_responses; after the last
\* one the evaluation result is built and stored
ValidateResponse ==
    /\ pc = "validating"
    /\ LET n == Len(detailed_results) + 1
           response == db_results[n]
           extracted_links == extracted[response.response]
       IN  \E futures \in {[k \in 1..Len(extracted_links) |->
                               [d \in web[i] |-> future_result(extracted_links[k], d)]]} :
           \E does \in [1..Len(extracted_links) -> web[i]] :
           \E outs \in {[k \in 1..Len(extracted_links) |-> futures[k][does[k]]]} :
           \E validated \in {validate_links_results(extracted_links, outs, FALSE)} :
            LET link_results == [k \in 1..Len(validated) |-> validated[k].status]
                details == Append(detailed_results, detailed_result(response, link_results))
                log == Append(elog, [ev |-> "validate", version |-> i, q |-> n])
            IN  /\ detailed_results' = details
                /\ IF n < Len(db_results)
                   THEN /\ elog' = log
                        /\ UNCHANGED <<pc, i, all_results, session_results, retval>>
                   ELSE FinishVersion(db_results, details, log)
    /\ UNCHANGED <<prompt_versions, nquestions, session_versions, qi,
                   db_results, reprompts>>
    /\ UNCHANGED <<summary, web, api_call>>
    /\ UNCHANGED <<linkVars, poolVars, extractVars>>

(***************************************************************************)
(* generate_comparison_summary.  Rates and averages are Python floats; they *)
(* are kept here as exact fractions num/den and compared by cross           *)
(* multiplication.                                                          *)
(***************************************************************************)
Frac(n, d) == [num |-> n, den |-> d]

\* float('inf')
Infinity == Frac(1, 0)

\* x > y and x < y
greater(x, y) == x.num * y.den > y.num * x.den
less(x, y) == x.num * y.den < y.num * x.den

\* round(x, ndigits) with scale = 10 ** ndigits: to the nearest, halves to even
round(x, scale) ==
    LET n == x.num * scale
        q == n \div x.den
        r == n % x.den
        up == 2 * r > x.den \/ (2 * r = x.den /\ q % 2 = 1)
    IN  Frac(IF up THEN q + 1 ELSE q, scale)

\* 100 for a version without links
link_success_rate(link_summary) ==
    IF link_summary.total_links > 0
    THEN Frac((link_summary.valid_links + link_summary.warning_links) * 100,
              link_summary.total_links)
    ELSE Frac(100, 1)

\* the comparison that also replaces the best on a tie
betterLinks_OrEqual(rate, best_link_score) == ~less(rate, best_link_score)

betterLinks(rate, best_link_score) == greater(rate, best_link_score)

fasterTime_OrEqual(avg_response_time, best_response_time) ==
    ~greater(avg_response_time, best_response_time)

fasterTime(avg_response_time, best_response_time) ==
    less(avg_response_time, best_response_time)

\* the row stored under the prompt's name
comparison_row(result, rate) ==
    [link_success_rate |-> round(rate, 10),
     total_links |-> result.link_validation_summary.total_links,
     valid_links |-> result.link_validation_summary.valid_links,
     invalid_links |-> result.link_validation_summary.invalid_links,
     avg_response_time_ms |-> round(result.performance_metrics.avg_response_time_ms, 1),
     successful_api_calls |-> result.performance_metrics.successful_responses,
     failed_api_calls |-> result.performance_metrics.failed_responses,
     questions_with_invalid_links |->
        result.link_validation_summary.questions_with_invalid_links]

\* the keys of results in insertion order: the versions are stored in the
\* order they are evaluated, which is the order of their ids
RECURSIVE items(_)
items(ids) ==
    IF ids = {} THEN <<>>
    ELSE LET first == CHOOSE k \in ids : \A j \in ids : k <= j
         IN  <<first>> \o items(ids \ {first})

\* one iteration of the for loop over results.items()
scanOne(result, acc) ==
    LET prompt_name == result.prompt_version.name
        rate == link_success_rate(result.link_validation_summary)
        avg_response_time == result.performance_metrics.avg_response_time_ms
        is_better == betterLinks(rate, acc.best_link_score)
        is_faster == fasterTime(avg_response_time, acc.best_response_time)
    IN  [best_link_score |-> IF is_better THEN rate ELSE acc.best_link_score,
         best_prompt_for_links |->
            IF is_better THEN <<prompt_name>> ELSE acc.best_prompt_for_links,
         best_response_time |->
            IF is_faster THEN avg_response_time ELSE acc.best_response_time,
         best_prompt_for_response_time |->
            IF is_faster THEN <<prompt_name>> ELSE acc.best_prompt_for_response_time,
         prompt_comparison |->
            [n \in DOMAIN acc.prompt_comparison \cup {prompt_name} |->
                IF n = prompt_name THEN comparison_row(result, rate)
                ELSE acc.prompt_comparison[n]]]

RECURSIVE scan(_, _, _)
scan(res, ids, acc) ==
    IF ids = <<>> THEN acc
    ELSE scan(res, Tail(ids), scanOne(res[Head(ids)], acc))

\* {} for a session without results, the summary dict otherwise; a best
\* prompt is <<>> for None and <<name>> for a name
generate_comparison_summary(res) ==
    IF DOMAIN res = {} THEN [empty |-> TRUE]
    ELSE LET acc == scan(res, items(DOMAIN res),
                         [best_link_score |-> Frac(-1, 1),
                          best_prompt_for_links |-> <<>>,
                          best_response_time |-> Infinity,
                          best_prompt_for_response_time |-> <<>>,
                          prompt_comparison |-> EmptyMap])
         IN  [prompt_comparison |-> acc.prompt_comparison,
              overall_metrics |->
                [total_prompts |-> Cardinality(DOMAIN res),
                 total_questions_per_prompt |-> nquestions,
                 best_prompt_for_links |-> acc.best_prompt_for_links,
                 best_prompt_for_response_time |-> acc.best_prompt_for_response_time]]

\* generate_comparison_summary called on the session
GenerateComparisonSummary ==
    /\ summary = NotReturned
    /\ summary' = generate_comparison_summary(session_results)
    /\ UNCHANGED <<pc, prompt_versions, nquestions, i, session_versions,
                   session_results, all_results, retval, qi, db_results,
                   detailed_results, reprompts, elog, web, api_call>>
    /\ UNCHANGED <<linkVars, poolVars, extractVars>>

\* main after run_multi_prompt_evaluation has returned: results that are
\* truthy are saved and summarized, otherwise the evaluation has failed.
\* The value returned is None, the session's results being empty, or is the
\* session's results: its truth is read off the session
MainReportsResults ==
    /\ pc = "returned"
    /\ summary = NotReturned
    /\ summary' = IF DOMAIN session_results # {}
                  THEN generate_comparison_summary(session_results)
                  ELSE None
    /\ UNCHANGED <<pc, prompt_versions, nquestions, i, session_versions,
                   session_results, all_results, retval, qi, db_results,
                   detailed_results, reprompts, elog, web, api_call>>
    /\ UNCHANGED <<linkVars, poolVars, extractVars>>

(***************************************************************************)
(* Specifications                                                          *)
(***************************************************************************)

PoolIdle ==
    /\ ppc = "idle"
    /\ pool_size = 0
    /\ tasks = <<>>
    /\ collected = {}
    /\ results = <<>>

ExtractIdle ==
    /\ xpc = "idle"
    /\ links = <<>>
    /\ relinks = <<>>

ExtractUnused ==
    /\ text = <<>>
    /\ ExtractIdle

PoolUnused ==
    /\ max_workers = DefaultMaxWorkers
    /\ show_progress = FALSE
    /\ urls = <<>>
    /\ PoolIdle

LinkIdle ==
    /\ net = "any"
    /\ vpc = "idle"
    /\ attempt = 0
    /\ best_result = None
    /\ returned = NotReturned
    /\ vlog = <<>>

NoCall == [in_flight |-> {}, result |-> NotReturned]

EvalIdle ==
    /\ pc = "start"
    /\ summary = NotReturned
    /\ api_call = NoCall
    /\ i = 0
    /\ session_versions = <<>>
    /\ session_results = EmptyMap
    /\ all_results = EmptyMap
    /\ retval = NotReturned
    /\ qi = 0
    /\ db_results = <<>>
    /\ detailed_results = <<>>
    /\ reprompts = 0
    /\ elog = <<>>

\* a validator built with any max_retries, asked about any url
InitLink ==
    /\ max_retries \in 0..MaxRetriesBound
    /\ url \in Urls
    /\ LinkIdle
    /\ prompt_versions = <<>>
    /\ nquestions = 0
    /\ web = <<>>
    /\ EvalIdle
    /\ PoolUnused
    /\ ExtractUnused

NextLink == CallValidateSingleLink \/ Attempt \/ Backoff \/ ReturnBest

SpecLink == InitLink /\ [][NextLink]_vars

\* a validator built with a longer retry budget, asked about a well-formed
\* url whose server is up
MaxRetriesLong == 3

InitRetry ==
    /\ max_retries \in 0..MaxRetriesLong
    /\ url = UrlOk
    /\ net = "plain"
    /\ vpc = "idle"
    /\ attempt = 0
    /\ best_result = None
    /\ returned = NotReturned
    /\ vlog = <<>>
    /\ prompt_versions = <<>>
    /\ nquestions = 0
    /\ web = <<>>
    /\ EvalIdle
    /\ PoolUnused
    /\ ExtractUnused

SpecRetry == InitRetry /\ [][NextLink]_vars

\* a session just made by create_evaluation_session, and the arguments of
\* run_multi_prompt_evaluation
InitEval ==
    /\ prompt_versions = [k \in 1..NumVersions |-> PromptVersion(k)]
    /\ nquestions \in 0..MaxQuestions
    /\ web = [k \in 1..NumVersions |-> AnyLink]
    /\ EvalIdle
    /\ max_retries = DefaultMaxRetries
    /\ url = UrlOk
    /\ LinkIdle
    /\ PoolUnused
    /\ ExtractUnused

\* a session holding the results of any of the versions, under names that
\* may be the same, about to be summarized; the history of the run that
\* made them is not kept
Named(k, names) == [id |-> k, name |-> names[k]]

SummaryResult(pv, valid, warning, invalid, t) ==
    [prompt_version |-> pv,
     total_questions |-> 1,
     link_validation_summary |->
        [total_links |-> valid + warning + invalid,
         valid_links |-> valid,
         warning_links |-> warning,
         invalid_links |-> invalid,
         questions_with_invalid_links |-> IF invalid > 0 THEN 1 ELSE 0],
     performance_metrics |->
        [avg_response_time_ms |-> Frac(t, 1),
         successful_responses |-> 1,
         failed_responses |-> 0]]

MaxSummaryLinks == 2
SummaryLatencies == {100, 200}
SummaryNames == {<<1, 2>>, <<1, 1>>}

SummaryResults(pv) ==
    {SummaryResult(pv, c[1], c[2], c[3], t) :
        c \in {x \in [1..3 -> 0..MaxSummaryLinks] : x[1] + x[2] + x[3] <= MaxSummaryLinks},
        t \in SummaryLatencies}

InitSummary ==
    /\ \E names \in SummaryNames :
        /\ prompt_versions = [k \in 1..NumVersions |-> Named(k, names)]
        /\ \E ids \in SUBSET (1..NumVersions) :
            /\ session_results \in
                {f \in [ids -> UNION {SummaryResults(prompt_versions[k]) : k \in ids}] :
                    \A k \in ids : f[k].prompt_version = prompt_versions[k]}
            /\ session_versions =
                [k \in 1..Cardinality(ids) |-> prompt_versions[items(ids)[k]]]
    /\ retval = session_results
    /\ nquestions = 1
    /\ web = [k \in 1..NumVersions |-> AnyLink]
    /\ pc = "returned"
    /\ summary = NotReturned
    /\ api_call = NoCall
    /\ i = NumVersions + 1
    /\ all_results = session_results
    /\ qi = 0
    /\ db_results = <<>>
    /\ detailed_results = <<>>
    /\ reprompts = 0
    /\ elog = <<>>
    /\ max_retries = DefaultMaxRetries
    /\ url = UrlOk
    /\ LinkIdle
    /\ PoolUnused
    /\ ExtractUnused

NextSummary == GenerateComparisonSummary

SpecSummary == InitSummary /\ [][NextSummary]_vars

NextEval ==
    \/ TestApiConnection
    \/ GateProceed
    \/ GateSkip
    \/ GateQuit
    \/ GateReprompt
    \/ AskQuestion
    \/ ValidateResponse

SpecEval == InitEval /\ [][NextEval]_vars

\* run_multi_prompt_evaluation with an operator who ends up giving a
\* directive at every gate, an API whose calls return or fail and links
\* that are all of one kind: every step that can be taken is taken
InitLive ==
    /\ prompt_versions = [k \in 1..NumVersions |-> PromptVersion(k)]
    /\ nquestions \in 0..MaxQuestions
    /\ web \in {[k \in 1..NumVersions |-> {d}] : d \in AnyLink}
    /\ EvalIdle
    /\ max_retries = DefaultMaxRetries
    /\ url = UrlOk
    /\ LinkIdle
    /\ PoolUnused
    /\ ExtractUnused

GateDirective == GateProceed \/ GateSkip \/ GateQuit

\* weak fairness of ValidateResponse, which can be taken exactly when the
\* validation loop is running
ValidationGoesOn ==
    []<>(pc # "validating") \/ []<><<ValidateResponse>>_vars

SpecLive ==
    /\ InitLive
    /\ [][NextEval]_vars
    /\ WF_vars(TestApiConnection)
    /\ WF_vars(GateDirective)
    /\ WF_vars(AskQuestion)
    /\ ValidationGoesOn

\* run_multi_prompt_evaluation with the question loop taken step by step
InitSuite ==
    /\ prompt_versions = [k \in 1..NumVersions |-> PromptVersion(k)]
    /\ nquestions \in 0..MaxQuestions
    /\ web = [k \in 1..NumVersions |-> {"always200"}]
    /\ EvalIdle
    /\ max_retries = DefaultMaxRetries
    /\ url = UrlOk
    /\ LinkIdle
    /\ PoolUnused
    /\ ExtractUnused

NextSuite ==
    \/ TestApiConnection
    \/ GateProceed
    \/ GateSkip
    \/ GateQuit
    \/ GateReprompt
    \/ PostQuestion
    \/ QuestionAnswered
    \/ SaveResult
    \/ ValidateResponse

SpecSuite == InitSuite /\ [][NextSuite]_vars

\* the whole program: main runs the evaluation on two versions, each with
\* links that all answer 200 or all answer 404 to HEAD and to GET, and
\* reports the results
E2EQuestions == 2
E2ELinks == {"always200", "always404"}

InitE2E ==
    /\ prompt_versions = [k \in 1..NumVersions |-> PromptVersion(k)]
    /\ nquestions = E2EQuestions
    /\ web \in [1..NumVersions -> {{d} : d \in E2ELinks}]
    /\ EvalIdle
    /\ max_retries = DefaultMaxRetries
    /\ url = UrlOk
    /\ LinkIdle
    /\ PoolUnused
    /\ ExtractUnused

NextE2E ==
    \/ NextEval
    \/ MainReportsResults

SpecE2E == InitE2E /\ [][NextE2E]_vars

\* a validator built with any max_workers and max_retries, and one call of
\* validate_links with any batch and either show_progress
InitPool ==
    /\ max_workers \in 1..MaxWorkersBound
    /\ max_retries \in {0, DefaultMaxRetries}
    /\ show_progress \in BOOLEAN
    /\ urls \in Batches(MaxBatch)
    /\ PoolIdle
    /\ url = UrlOk
    /\ LinkIdle
    /\ prompt_versions = <<>>
    /\ nquestions = 0
    /\ web = <<>>
    /\ EvalIdle
    /\ ExtractUnused

NextPool ==
    \/ CallValidateLinks
    \/ StartTask
    \/ TaskBackoff
    \/ TaskResume
    \/ FinishTask
    \/ CollectResult
    \/ ReturnResults

SpecPool == InitPool /\ [][NextPool]_vars

\* one call of extract_links on any of the texts, and a second call on its
\* output
InitExtract ==
    /\ text \in Texts
    /\ ExtractIdle
    /\ max_retries = DefaultMaxRetries
    /\ url = UrlOk
    /\ LinkIdle
    /\ prompt_versions = <<>>
    /\ nquestions = 0
    /\ web = <<>>
    /\ EvalIdle
    /\ PoolUnused

NextExtract == ExtractLinks \/ ReExtractLinks

SpecExtract == InitExtract /\ [][NextExtract]_vars

(***************************************************************************)
(* Properties of run_multi_prompt_evaluation (SpecEval)                    *)
(***************************************************************************)
HasEvent(ev) == \E k \in 1..Len(elog) : elog[k].ev = ev

\* the ids of the versions whose evaluation has been completed and recorded
RecordedIds ==
    {prompt_versions[elog[k].version].id : k \in {j \in 1..Len(elog) : elog[j].ev = "record"}}

\* C1: after the operator quits at a gate, every evaluation recorded for a
\* version completed before that gate is still present in the session's
\* results mapping.
C1_AbortPreservesRecorded ==
    pc = "exited" => \A id \in RecordedIds : id \in DOMAIN session_results

\* C2: once the evaluation of a version has completed, the session's results
\* mapping holds its entry from then on, in particular while the next gate
\* waits and while a later version runs.
C2_ResultsMutatedIncrementally ==
    pc \in {"gate", "asking", "validating"} =>
        \A id \in RecordedIds : id \in DOMAIN session_results

\* C3: when the connectivity check fails the run ends at once: it returns
\* None, no gate was presented, no question was asked, and the session has
\* no result and no completed version.
C3_ConnectivityFailureEndsSession ==
    HasEvent("connect_failed") =>
        /\ pc = "returned"
        /\ retval = None
        /\ ~HasEvent("gate")
        /\ ~HasEvent("proceed")
        /\ ~HasEvent("ask")
        /\ session_results = EmptyMap
        /\ session_versions = <<>>

C3_Witness ==
    /\ HasEvent("connect_failed")
    /\ pc = "returned"
    /\ Len(prompt_versions) = NumVersions
    /\ nquestions >= 1

(***************************************************************************)
(* Properties of validate_single_link and of the prober (SpecLink)         *)
(***************************************************************************)
IsProbe(e) == e.ev = "probe"
ProbeIdx == {k \in 1..Len(vlog) : IsProbe(vlog[k])}
Probes == SelectSeq(vlog, IsProbe)

Rank(status) ==
    IF status = "valid" THEN 3 ELSE IF status = "warning" THEN 2 ELSE 1

\* C4: the result validate_single_link returns is one of the results of the
\* attempts it made, and none of those attempts has a higher-ranked
\* classification (valid > warning > invalid).
C4_ReturnsBestRanked ==
    (vpc = "returned" /\ ProbeIdx # {}) =>
        /\ returned # None
        /\ \E k \in ProbeIdx : vlog[k].result = returned
        /\ \A k \in ProbeIdx : Rank(vlog[k].result.status) <= Rank(returned.status)

C4_Witness ==
    /\ vpc = "returned"
    /\ Len(Probes) = 2
    /\ Probes[1].result.status = "warning"
    /\ Probes[2].result.status = "invalid"
    /\ returned = Probes[1].result

\* C5: an attempt classified valid is the last thing validate_single_link
\* does: its result is returned, and no attempt and no backoff follows it.
C5_ShortCircuitOnValid ==
    \A k \in ProbeIdx :
        vlog[k].result.status = "valid" =>
            /\ k = Len(vlog)
            /\ vpc = "returned"
            /\ returned = vlog[k].result

C5_Witness ==
    /\ max_retries = DefaultMaxRetries
    /\ vpc = "returned"
    /\ Len(vlog) = 1
    /\ IsProbe(vlog[1])
    /\ vlog[1].result.status = "valid"

\* C6: validate_single_link never returns None, whatever max_retries is.
C6_NeverReturnsNone ==
    vpc = "returned" => returned # None

\* C7: the prober is called at most max_retries times, and the j-th call
\* carries attempt number j.
C7_AttemptsBoundedAndOrdered ==
    /\ Len(Probes) <= max_retries
    /\ \A j \in 1..Len(Probes) : Probes[j].attempt = j

C7_Witness ==
    /\ max_retries = DefaultMaxRetries
    /\ vpc = "returned"
    /\ Len(Probes) = DefaultMaxRetries
    /\ Probes[DefaultMaxRetries].attempt = DefaultMaxRetries

\* C8: every prober call hands back a result classified valid, warning or
\* invalid, for the url and attempt number it was called with; no exception
\* of the url parser or of an HTTP tier leaves it.
C8_ProberAlwaysClassifies ==
    \A k \in ProbeIdx :
        /\ vlog[k].result.status \in Statuses
        /\ vlog[k].result.url = url
        /\ vlog[k].result.attempt = vlog[k].attempt

C8_Witness ==
    \E k \in ProbeIdx :
        /\ Len(vlog[k].requests) = 2
        /\ vlog[k].requests[1].out.kind = "raise"
        /\ vlog[k].requests[2].out.kind = "raise"
        /\ vlog[k].result.status = "invalid"

\* the status table of the prober
StatusTable(code) ==
    IF code < 400 THEN "valid"
    ELSE IF code = 404 THEN "invalid"
    ELSE IF code \in {403, 429} THEN "warning"
    ELSE IF code >= 500 THEN "warning"
    ELSE "invalid"

\* what the requests of probe k answered, as (method, status code) pairs
Answers(k) ==
    {<<vlog[k].requests[j].method, vlog[k].requests[j].out.status_code>> :
        j \in {n \in 1..Len(vlog[k].requests) : vlog[k].requests[n].out.kind = "response"}}

\* C9 as claimed: the attempt is classified by the status table, and a code
\* of {200, 301, 403, 429, 500, 503} answered by either tier gives the
\* table's classification whatever the other tier did.
C9_TableWhicheverTier ==
    \A k \in ProbeIdx :
        /\ vlog[k].result.status_code # NoCode =>
                vlog[k].result.status = StatusTable(vlog[k].result.status_code)
        /\ \A a \in Answers(k) :
                a[2] \in {200, 301, 403, 429, 500, 503} =>
                    vlog[k].result.status = StatusTable(a[2])

\* C9 amended: the attempt is classified by the status table applied to the
\* status code its result carries; a code of {200, 301, 429, 500, 503}
\* answered by either tier becomes the result's code and classification; a
\* 403 does so only when the GET tier answered it.
C9_TableOnResultCode ==
    \A k \in ProbeIdx :
        /\ vlog[k].result.status_code # NoCode =>
                vlog[k].result.status = StatusTable(vlog[k].result.status_code)
        /\ vlog[k].result.status_code = 403 => vlog[k].result.method_used = "GET"
        /\ \A a \in Answers(k) :
                (a[2] \in {200, 301, 429, 500, 503} \/ a = <<"GET", 403>>) =>
                    /\ vlog[k].result.status_code = a[2]
                    /\ vlog[k].result.method_used = a[1]
                    /\ vlog[k].result.status = StatusTable(a[2])

C9_Witness ==
    \E k \in ProbeIdx :
        /\ <<"HEAD", 403>> \in Answers(k)
        /\ <<"GET", 429>> \in Answers(k)
        /\ vlog[k].result.status = "warning"
        /\ vlog[k].result.status_code = 429

\* C10 as claimed: a result invalid with status code 404 is returned only
\* when both the HEAD and the GET request of the attempt answered 404.
C10_404OnBothTiers ==
    \A k \in ProbeIdx :
        (vlog[k].result.status = "invalid" /\ vlog[k].result.status_code = 404) =>
            Answers(k) = {<<"HEAD", 404>>, <<"GET", 404>>}

\* C10 amended: a result invalid with status code 404 is returned only when
\* the escalated GET request answered 404, after a HEAD request that
\* answered 404 or 403 or raised.
C10_404OnEscalation ==
    \A k \in ProbeIdx :
        (vlog[k].result.status = "invalid" /\ vlog[k].result.status_code = 404) =>
            /\ vlog[k].result.method_used = "GET"
            /\ Len(vlog[k].requests) = 2
            /\ vlog[k].requests[1].method = "HEAD"
            /\ \/ vlog[k].requests[1].out.kind = "raise"
               \/ vlog[k].requests[1].out.status_code \in {403, 404}
            /\ vlog[k].requests[2].method = "GET"
            /\ vlog[k].requests[2].out.kind = "response"
            /\ vlog[k].requests[2].out.status_code = 404

C10_Witness ==
    \E k \in ProbeIdx :
        /\ Answers(k) = {<<"HEAD", 404>>, <<"GET", 404>>}
        /\ vlog[k].result.status = "invalid"
        /\ vlog[k].result.status_code = 404

\* C11: every result of the prober, whichever path produced it (an HTTP
\* response, a malformed URL, both tiers failed, an unexpected exception),
\* records the method tier, the redirect count, the final URL and the attempt
\* number.
C11_EveryResultRecordsTier ==
    \A k \in ProbeIdx :
        {"method_used", "redirects", "final_url", "attempt"} \subseteq DOMAIN vlog[k].result

\* C12: a HEAD request that fails at the network level does not end the
\* attempt, the GET request is still made; when both requests fail the
\* result is invalid, has no status code and carries the message of the GET
\* failure, the last one.
C12_HeadFailureEscalates ==
    \A k \in ProbeIdx :
        LET r == vlog[k].result
            reqs == vlog[k].requests
        IN  (reqs # <<>> /\ reqs[1].method = "HEAD" /\ reqs[1].out.kind = "raise") =>
                /\ Len(reqs) = 2
                /\ reqs[2].method = "GET"
                /\ reqs[2].out.kind = "raise" =>
                        /\ r.status = "invalid"
                        /\ r.status_code = NoCode
                        /\ r.error = <<"Connection failed", reqs[2].out.exc>>

C12_Witness ==
    \E k \in ProbeIdx :
        /\ Len(vlog[k].requests) = 2
        /\ vlog[k].requests[1].out.kind = "raise"
        /\ vlog[k].requests[1].out.exc = "ConnectionError"
        /\ vlog[k].requests[2].out.kind = "raise"
        /\ vlog[k].requests[2].out.exc = "RuntimeError"
        /\ vlog[k].result.error = <<"Connection failed", "RuntimeError">>

\* C13: for a URL that parses with neither a scheme nor a host, every attempt
\* gives an invalid result with zero latency and the input URL as final URL,
\* and makes no HTTP request, neither HEAD nor GET.
C13_MalformedUrlNoRequest ==
    (~urlparse(url).raises /\ urlparse(url).scheme = <<>> /\ urlparse(url).netloc = <<>>) =>
        \A k \in ProbeIdx :
            /\ vlog[k].requests = <<>>
            /\ vlog[k].result.status = "invalid"
            /\ vlog[k].result.response_time_ms = 0
            /\ vlog[k].result.final_url = url

C13_Witness ==
    /\ urlparse(url).scheme = <<>>
    /\ urlparse(url).netloc = <<>>
    /\ \E k \in ProbeIdx : vlog[k].attempt = 1 /\ vlog[k].requests = <<>>
    /\ \E k \in ProbeIdx : vlog[k].attempt = 2 /\ vlog[k].requests = <<>>

(***************************************************************************)
(* Properties of validate_links (SpecPool)                                 *)
(***************************************************************************)

Count(seq, x) == Cardinality({n \in 1..Len(seq) : seq[n] = x})

\* the entries of results that are about url u
EntriesFor(u) ==
    {n \in 1..Len(results) : "url" \in DOMAIN results[n] /\ results[n].url = u}

\* C14: validate_links returns exactly one result per input URL: whatever the
\* batch, the completion order and show_progress, the URLs of the results are
\* the input URLs, each as many times as it was given.
C14_OneResultPerUrl ==
    ppc = "returned" =>
        /\ Len(results) = Len(urls)
        /\ \A u \in BatchUrls :
            Cardinality(EntriesFor(u)) = Cardinality({k \in 1..Len(urls) : urls[k] = u})

\* C15: at every moment of validate_links the number of URLs whose
\* validate_single_link is in progress is at most max_workers.
C15_AtMostMaxWorkers == Cardinality(Running) <= max_workers

C15_Witness ==
    /\ Cardinality(Running) = max_workers
    /\ \E k \in 1..Len(tasks) : tasks[k].state = "queued"

\* C16: an exception raised while one URL is probed does not leave
\* validate_links and does not touch the other probes: each future that
\* raised is turned into one invalid result for its URL with the exception
\* text and attempt 1, and each other future's own return value is in the
\* results as often as it was returned; the call returns once all are in.
C16_ProbeExceptionBecomesResult ==
    /\ \A k \in collected :
        LET o == tasks[k].outcome
        IN  IF "status" \in DOMAIN o /\ o.status = "raised"
            THEN Cardinality({n \in EntriesFor(urls[k]) :
                                /\ "error" \in DOMAIN results[n]
                                /\ results[n].status = "invalid"
                                /\ results[n].status_code = NoCode
                                /\ results[n].error = <<"Validation failed", o.exc>>
                                /\ results[n].attempt = 1})
                 = Cardinality({j \in collected : urls[j] = urls[k] /\ tasks[j].outcome = o})
            ELSE Count(results, o)
                 = Cardinality({j \in collected : tasks[j].outcome = o})
    /\ ppc = "returned" /\ urls # <<>> => collected = 1..Len(urls)
    /\ (ppc = "collecting" /\ Done = 1..Len(urls) /\ collected = Done) => ENABLED ReturnResults

C16_Witness ==
    /\ ppc = "returned"
    /\ Len(urls) >= 2
    /\ \E k, j \in 1..Len(tasks) :
        /\ tasks[k].outcome = Raised("RuntimeError")
        /\ tasks[j].outcome = [url |-> urls[j], status |-> "valid"]
        /\ results[1] = validationFailed(urls[k], "RuntimeError")
        /\ Count(results, tasks[j].outcome) = 1

\* C17: validate_links of an empty list returns an empty list, makes no
\* executor and submits no validate_single_link.
C17_EmptyBatchSpawnsNothing ==
    (urls = <<>> /\ ppc # "idle") =>
        /\ ppc = "returned"
        /\ results = <<>>
        /\ pool_size = 0
        /\ tasks = <<>>

C17_Witness == urls = <<>> /\ ppc = "returned" /\ results = <<>>

(***************************************************************************)
(* Further properties of run_multi_prompt_evaluation (SpecEval)            *)
(***************************************************************************)

\* the evaluation results the run holds: in all_results, in the session and
\* in the value returned
\* run_multi_prompt_evaluation has returned all_results
ReturnedResults == pc = "returned" /\ HasEvent("connect")

\* the evaluation results the run holds: in all_results, in the session and
\* in the value returned
HeldResults ==
    {all_results[k] : k \in DOMAIN all_results}
        \cup {session_results[k] : k \in DOMAIN session_results}
        \cup (IF ReturnedResults THEN {retval[k] : k \in DOMAIN retval} ELSE {})

\* C18: in every evaluation result run_single_prompt_evaluation computes,
\* total_links is valid_links + warning_links + invalid_links.
C18_TotalLinksIsSum ==
    \A r \in HeldResults :
        r.link_validation_summary.total_links =
            r.link_validation_summary.valid_links
            + r.link_validation_summary.warning_links
            + r.link_validation_summary.invalid_links

C18_Witness ==
    \E r \in HeldResults :
        /\ r.link_validation_summary.total_links = 2
        /\ r.link_validation_summary.warning_links = 1
        /\ r.link_validation_summary.invalid_links = 1

EventsOf(v) == {k \in 1..Len(elog) : elog[k].version = v}

\* C19: a version skipped at its gate is left out of the session: no question
\* is asked for it, it is neither in the session's prompt_versions nor a key
\* of the results, and the loop goes on to the gate of the next version, or
\* ends when there is none.
C19_SkipOmitsVersion ==
    \A k \in 1..Len(elog) :
        elog[k].ev = "skip" =>
            LET v == elog[k].version
            IN  /\ \A j \in EventsOf(v) : elog[j].ev \in {"gate", "skip"}
                /\ \A n \in 1..Len(session_versions) : session_versions[n] # prompt_versions[v]
                /\ prompt_versions[v].id \notin DOMAIN all_results
                /\ prompt_versions[v].id \notin DOMAIN session_results
                /\ ReturnedResults => prompt_versions[v].id \notin DOMAIN retval
                /\ IF v < Len(prompt_versions)
                   THEN /\ k < Len(elog)
                        /\ elog[k + 1].ev = "gate"
                        /\ elog[k + 1].version = v + 1
                   ELSE /\ k = Len(elog)
                        /\ pc = "returned"

C19_Witness ==
    /\ pc = "returned"
    /\ \E k \in 1..Len(elog) : elog[k].ev = "skip" /\ elog[k].version = 1
    /\ \E k \in 1..Len(elog) : elog[k].ev = "ask" /\ elog[k].version = 2
    /\ DOMAIN retval = {prompt_versions[2].id}
    /\ session_versions = <<prompt_versions[2]>>

IsGate(e) == e.ev = "gate"
Gates == SelectSeq(elog, IsGate)

\* C20: a question is asked for a version only after proceed was given at
\* that version's gate; the gates are presented in list order, one per
\* version and never twice, all of them when the run returns its results;
\* the first gate follows the connectivity check and every later gate
\* follows at once the record or the skip of the version before.
C20_GatesInOrderBeforeQuestions ==
    /\ \A k \in 1..Len(elog) :
        elog[k].ev = "ask" =>
            \E j \in 1..(k - 1) :
                /\ elog[j].ev = "proceed"
                /\ elog[j].version = elog[k].version
                /\ \E g \in 1..(j - 1) : elog[g].ev = "gate" /\ elog[g].version = elog[k].version
    /\ \A n \in 1..Len(Gates) : Gates[n].version = n
    /\ Len(Gates) <= Len(prompt_versions)
    /\ ReturnedResults => Len(Gates) = Len(prompt_versions)
    /\ \A k \in 1..Len(elog) :
        elog[k].ev = "gate" =>
            /\ k > 1
            /\ IF elog[k].version = 1
               THEN elog[k - 1].ev = "connect"
               ELSE /\ elog[k - 1].ev \in {"record", "skip"}
                    /\ elog[k - 1].version = elog[k].version - 1

C20_Witness ==
    /\ Len(Gates) = 2
    /\ \E k \in 1..Len(elog) : elog[k].ev = "record" /\ elog[k].version = 1
    /\ \E k \in 1..Len(elog) : elog[k].ev = "ask" /\ elog[k].version = 1
    /\ \E k \in 1..Len(elog) : elog[k].ev = "ask" /\ elog[k].version = 2

(***************************************************************************)
(* Properties of extract_links (SpecExtract)                               *)
(***************************************************************************)

\* the index of text at which the URL u is first seen: the least start of a
\* match of either pattern that is cleaned to u
FirstSeen(u) ==
    LET starts == {all_links(text)[k].start :
                    k \in {n \in 1..Len(all_links(text)) : clean(all_links(text)[n].link) = u}}
    IN  CHOOSE p \in starts : \A q \in starts : p <= q

\* C28: what one extract_links call returns has no URL twice and keeps the
\* order in which the URLs are first seen in the text, also when the text
\* mixes scheme-qualified and www. links.
C28_UniqueInFirstSeenOrder ==
    xpc # "idle" =>
        \A a, b \in 1..Len(links) :
            a < b => /\ links[a] # links[b]
                     /\ FirstSeen(links[a]) < FirstSeen(links[b])

\* C29: extract_links applied to the text made of what a previous call
\* returned gives the same URLs in the same order.
C29_ReExtractionIsIdentity ==
    xpc = "re-extracted" => relinks = links

\* C30: extract_links returns no string shorter than 11 characters and none
\* without a '.', scheme-prefixed or not; the test is made on the candidate
\* after the https:// rewrite of a www. match and after the stripping.
C30_ShortOrDotlessNeverReturned ==
    xpc # "idle" =>
        /\ \A k \in 1..Len(links) :
            /\ Len(links[k]) >= 11
            /\ \E n \in 1..Len(links[k]) : links[k][n] = "."
        /\ \A k \in 1..Len(all_links(text)) :
            LET c == clean(all_links(text)[k].link)
            IN  (Len(c) >= 11 /\ \E n \in 1..Len(c) : c[n] = ".") =>
                    \E n \in 1..Len(links) : links[n] = c

C30_Witness ==
    /\ xpc = "extracted"
    /\ text = join(<<TokShort, TokWww>>)
    /\ Len(TokWww) < 11
    /\ links = <<clean(TokWww)>>

(***************************************************************************)
(* Properties of the gate and of the question loop (SpecEval)              *)
(***************************************************************************)
\* what the session holds: everything but the count of inputs read
sessionState == <<pc, i, session_versions, session_results, all_results,
                  retval, qi, db_results, detailed_results, elog, summary>>

\* the version waiting at the gate has not been run
NotRun(v, log, versions, res) ==
    /\ \A k \in 1..Len(log) :
            log[k].version = v => log[k].ev \notin {"proceed", "ask", "validate", "record"}
    /\ \A k \in 1..Len(versions) : versions[k] # prompt_versions[v]
    /\ prompt_versions[v].id \notin DOMAIN res

\* C21: a step taken while a gate waits either leaves the gate waiting with
\* the session state unchanged (an input that is no directive: the prompt is
\* shown again), or is the operator's proceed, skip or quit for that version;
\* nothing else ends the wait. After quit the evaluation is over: the version
\* of that gate has not been run, and no further step is taken.
C21_GateWaitsForDirective ==
    [][/\ pc = "gate" =>
            \/ /\ pc' = "gate"
               /\ UNCHANGED sessionState
            \/ /\ Len(elog') > Len(elog)
               /\ SubSeq(elog', 1, Len(elog)) = elog
               /\ elog'[Len(elog) + 1].ev \in {"proceed", "skip", "quit"}
               /\ elog'[Len(elog) + 1].version = i
               /\ elog'[Len(elog) + 1].ev = "quit" =>
                    /\ pc' = "exited"
                    /\ NotRun(i, elog', session_versions', session_results')
       /\ pc # "exited"]_vars

C21_Witness ==
    /\ pc = "exited"
    /\ reprompts >= 1
    /\ Len(session_versions) >= 1
    /\ elog[Len(elog)].ev = "quit"
    /\ elog[Len(elog)].version = 2

\* the questions the API client was called with for version v, in call order
AsksOf(v) ==
    LET IsAsk(e) == e.ev = "ask" /\ e.version = v
        asks == SelectSeq(elog, IsAsk)
    IN  [k \in 1..Len(asks) |-> asks[k].q]

Recorded(v) == \E k \in 1..Len(elog) : elog[k].ev = "record" /\ elog[k].version = v

\* C22: whatever calls fail, the API client is called once per question, in
\* session order; while a version runs the records kept are one per call, in
\* the same order, each success or error; and a recorded version has had
\* every question asked, its successes and failures adding up to the
\* number of questions.
C22_OneRecordPerQuestion ==
    \A v \in 1..Len(prompt_versions) :
      \E asks \in {AsksOf(v)} :
        /\ Len(asks) <= nquestions
        /\ \A k \in 1..Len(asks) : asks[k] = k
        /\ (v = i /\ pc \in {"asking", "validating"}) =>
                /\ Len(db_results) = Len(asks)
                /\ \A k \in 1..Len(db_results) :
                        /\ db_results[k].question_id = k
                        /\ db_results[k].status \in {"success", "error"}
        /\ (v = i /\ pc = "validating") => Len(asks) = nquestions
        /\ Recorded(v) =>
                /\ Len(asks) = nquestions
                /\ \A r \in HeldResults :
                        r.prompt_version = prompt_versions[v] =>
                            r.performance_metrics.successful_responses
                                + r.performance_metrics.failed_responses = nquestions

C22_Witness ==
    /\ pc = "validating"
    /\ Len(db_results) = 2
    /\ db_results[1].status = "error"
    /\ db_results[2].status = "success"
    /\ AsksOf(i) = <<1, 2>>

\* C23: a record with status error has an empty response text and an error
\* detail, no link is extracted from it, and its entry in the detailed
\* results counts no link, found, valid, warning or invalid.
C23_ErrorRecordHasNoLinks ==
    pc \in {"asking", "validating"} =>
        \A k \in 1..Len(db_results) :
            db_results[k].status = "error" =>
                /\ db_results[k].response = <<>>
                /\ db_results[k].error # NoError
                /\ extracted[db_results[k].response] = <<>>
                /\ k <= Len(detailed_results) =>
                        /\ detailed_results[k].question_id = k
                        /\ detailed_results[k].links_found = 0
                        /\ detailed_results[k].links_valid = 0
                        /\ detailed_results[k].links_warning = 0
                        /\ detailed_results[k].links_invalid = 0

C23_Witness ==
    /\ pc = "validating"
    /\ Len(detailed_results) >= 1
    /\ db_results[1].status = "error"
    /\ db_results[2].status = "success"
    /\ extracted[db_results[2].response] # <<>>

(***************************************************************************)
(* Properties of generate_comparison_summary (SpecSummary)                 *)
(***************************************************************************)
Summarized == "overall_metrics" \in DOMAIN summary

\* (valid + warning) / total as a percentage, 100 when there is no link: the
\* numerator and the denominator of the fraction
RateNum(k) ==
    LET ls == session_results[k].link_validation_summary
    IN  IF ls.total_links = 0 THEN 100 ELSE (ls.valid_links + ls.warning_links) * 100
RateDen(k) ==
    LET ls == session_results[k].link_validation_summary
    IN  IF ls.total_links = 0 THEN 1 ELSE ls.total_links

AvgNum(k) == session_results[k].performance_metrics.avg_response_time_ms.num
AvgDen(k) == session_results[k].performance_metrics.avg_response_time_ms.den

NameOf(k) == session_results[k].prompt_version.name

\* C24: the best prompt for links named by the summary is the recorded
\* version whose link success percentage, (valid + warning) / total with 100
\* for no link at all, is the highest, and the earliest evaluated of those
\* with that percentage.
C24_BestForLinksIsFirstHighest ==
    Summarized =>
        \E b \in DOMAIN session_results :
            /\ \A k \in DOMAIN session_results :
                    RateNum(b) * RateDen(k) >= RateNum(k) * RateDen(b)
            /\ \A k \in DOMAIN session_results :
                    k < b => RateNum(b) * RateDen(k) > RateNum(k) * RateDen(b)
            /\ summary.overall_metrics.best_prompt_for_links = <<NameOf(b)>>

C24_Witness ==
    /\ Summarized
    /\ DOMAIN session_results = {1, 2}
    /\ NameOf(1) # NameOf(2)
    /\ session_results[1].link_validation_summary.total_links = 0
    /\ session_results[2].link_validation_summary.valid_links = 1
    /\ session_results[2].link_validation_summary.total_links = 1
    /\ summary.overall_metrics.best_prompt_for_links = <<NameOf(1)>>

\* C25: in the summary's table the row of every recorded version that has
\* no link at all shows a link success rate of 100.
C25_ZeroLinksRateIs100 ==
    Summarized =>
        \A k \in DOMAIN session_results :
            session_results[k].link_validation_summary.total_links = 0 =>
                /\ NameOf(k) \in DOMAIN summary.prompt_comparison
                /\ LET row == summary.prompt_comparison[NameOf(k)]
                   IN  row.link_success_rate.num = 100 * row.link_success_rate.den

\* C26: the best prompt for response time named by the summary is the
\* recorded version with the lowest average response time, and the earliest
\* evaluated of those with that average.
C26_BestForTimeIsFirstLowest ==
    Summarized =>
        \E b \in DOMAIN session_results :
            /\ \A k \in DOMAIN session_results :
                    AvgNum(b) * AvgDen(k) <= AvgNum(k) * AvgDen(b)
            /\ \A k \in DOMAIN session_results :
                    k < b => AvgNum(b) * AvgDen(k) < AvgNum(k) * AvgDen(b)
            /\ summary.overall_metrics.best_prompt_for_response_time = <<NameOf(b)>>

C26_Witness ==
    /\ Summarized
    /\ DOMAIN session_results = {1, 2}
    /\ NameOf(1) # NameOf(2)
    /\ AvgNum(1) * AvgDen(2) = AvgNum(2) * AvgDen(1)
    /\ summary.overall_metrics.best_prompt_for_response_time = <<NameOf(1)>>

(***************************************************************************)
(* The whole program (SpecE2E)                                             *)
(***************************************************************************)
\* version v was run, every question was answered and the answers hold one
\* link per question
OneLinkPerAnswer(v) ==
    /\ prompt_versions[v].id \in DOMAIN session_results
    /\ LET r == session_results[prompt_versions[v].id]
       IN  /\ r.performance_metrics.successful_responses = nquestions
           /\ r.link_validation_summary.total_links = nquestions

\* C27: with two versions run on the same questions, every answer holding
\* one link per question, the links of version a all answering 200 and those
\* of version b all answering 404 to HEAD and to GET at every attempt, the
\* summary names version a best for links, be it evaluated first or second.
C27_EndToEndSelectsA ==
    Summarized =>
        \A a, b \in 1..NumVersions :
            (/\ a # b
             /\ web[a] = {"always200"}
             /\ web[b] = {"always404"}
             /\ OneLinkPerAnswer(a)
             /\ OneLinkPerAnswer(b))
                => summary.overall_metrics.best_prompt_for_links
                        = <<prompt_versions[a].name>>

C27_Witness ==
    /\ Summarized
    /\ nquestions = E2EQuestions
    /\ web[2] = {"always200"}
    /\ web[1] = {"always404"}
    /\ OneLinkPerAnswer(1)
    /\ OneLinkPerAnswer(2)
    /\ session_results[1].link_validation_summary.invalid_links = nquestions
    /\ session_results[2].link_validation_summary.valid_links = nquestions
    /\ summary.overall_metrics.best_prompt_for_links = <<prompt_versions[2].name>>

(***************************************************************************)
(* Further properties of the prober and of the retry loop (SpecLink)       *)
(***************************************************************************)
\* C33: the first request of an attempt is the HEAD request; a second
\* request is the GET request and is made only after a HEAD request that
\* answered 404 or 403 or raised; a HEAD request answering anything else is
\* the only request of the attempt and gives the result its status code.
C33_HeadFirstGetOnEscalation ==
    \A k \in ProbeIdx :
        LET r == vlog[k].result
            reqs == vlog[k].requests
        IN  reqs # <<>> =>
                /\ reqs[1].method = "HEAD"
                /\ Len(reqs) <= 2
                /\ Len(reqs) = 2 =>
                        /\ reqs[2].method = "GET"
                        /\ \/ reqs[1].out.kind = "raise"
                           \/ reqs[1].out.status_code \in {403, 404}
                /\ (reqs[1].out.kind = "response"
                        /\ reqs[1].out.status_code \notin {403, 404}) =>
                        /\ Len(reqs) = 1
                        /\ r.status_code = reqs[1].out.status_code
                        /\ r.method_used = "HEAD"
                        /\ r.status = StatusTable(reqs[1].out.status_code)

C33_Witness ==
    /\ \E k \in ProbeIdx :
        /\ Len(vlog[k].requests) = 1
        /\ vlog[k].requests[1].out.kind = "response"
        /\ vlog[k].requests[1].out.status_code = 429
        /\ vlog[k].result.status = "warning"
    /\ \E k \in ProbeIdx :
        /\ Len(vlog[k].requests) = 2
        /\ vlog[k].requests[1].out.kind = "response"
        /\ vlog[k].requests[1].out.status_code = 404

\* C36: an attempt whose HEAD request answered 403 or 404 and whose GET
\* request raised is invalid, without status code, with the Connection
\* failed message of the GET exception; and an attempt whose HEAD request
\* answered 403 is a warning only if its GET request was answered.
C36_GetFailureDiscardsHeadStatus ==
    \A k \in ProbeIdx :
        LET r == vlog[k].result
            reqs == vlog[k].requests
        IN  (Len(reqs) >= 1 /\ reqs[1].method = "HEAD"
                /\ reqs[1].out.kind = "response"
                /\ reqs[1].out.status_code \in {403, 404}) =>
                /\ (Len(reqs) = 2 /\ reqs[2].out.kind = "raise") =>
                        /\ r.status = "invalid"
                        /\ r.status_code = NoCode
                        /\ r.error = <<"Connection failed", reqs[2].out.exc>>
                /\ (reqs[1].out.status_code = 403 /\ r.status = "warning") =>
                        /\ Len(reqs) = 2
                        /\ reqs[2].method = "GET"
                        /\ reqs[2].out.kind = "response"

C36_Witness ==
    \E k \in ProbeIdx :
        /\ Len(vlog[k].requests) = 2
        /\ vlog[k].requests[1].out.kind = "response"
        /\ vlog[k].requests[1].out.status_code = 403
        /\ vlog[k].requests[2].out.kind = "raise"
        /\ vlog[k].result.status = "invalid"
        /\ vlog[k].result.status_code = NoCode

\* the attempts whose classification no other attempt outranks
BestProbes ==
    {j \in 1..Len(Probes) :
        \A n \in 1..Len(Probes) :
            Rank(Probes[n].result.status) <= Rank(Probes[j].result.status)}

\* C37: the result returned is the result of the earliest of the attempts
\* with the best classification: its attempt number is the least of theirs.
C37_TiesReturnEarliest ==
    (vpc = "returned" /\ Probes # <<>>) =>
        /\ returned.attempt \in BestProbes
        /\ \A j \in BestProbes : returned.attempt <= j
        /\ returned = Probes[returned.attempt].result

C37_Witness ==
    /\ vpc = "returned"
    /\ Len(Probes) = 2
    /\ Probes[1].result.status = "warning"
    /\ Probes[2].result.status = "warning"
    /\ returned.attempt = 1

(***************************************************************************)
(* The backoff of the retry loop (SpecRetry)                               *)
(***************************************************************************)
\* C32: no backoff wait is made once an attempt has been classified warning:
\* every sleep comes after attempts that were all invalid.
C32_NoBackoffWhileWarningHeld ==
    \A k \in 1..Len(vlog) :
        vlog[k].ev = "sleep" =>
            \A j \in 1..(k - 1) :
                IsProbe(vlog[j]) => vlog[j].result.status # "warning"

(***************************************************************************)
(* The order of API calls and link validation (SpecEval)                   *)
(***************************************************************************)
\* C31: within a version, the links of the response to question q have been
\* extracted and validated before the API is called for question q + 1.
C31_ValidatedBeforeNextQuestion ==
    \A k \in 1..Len(elog) :
        (elog[k].ev = "ask" /\ elog[k].q > 1) =>
            \E j \in 1..(k - 1) :
                /\ elog[j].ev = "validate"
                /\ elog[j].version = elog[k].version
                /\ elog[j].q = elog[k].q - 1

(***************************************************************************)
(* The rows of the summary (SpecSummary)                                   *)
(***************************************************************************)
\* C39: the table of the summary has one row per entry of the session's
\* results, and total_prompts is the number of its rows, also when two
\* recorded versions have the same display name.
C39_OneRowPerResult ==
    Summarized =>
        /\ Cardinality(DOMAIN summary.prompt_comparison)
                = Cardinality(DOMAIN session_results)
        /\ summary.overall_metrics.total_prompts
                = Cardinality(DOMAIN summary.prompt_comparison)

(***************************************************************************)
(* Termination of run_multi_prompt_evaluation (SpecLive)                   *)
(***************************************************************************)
Skipped(v) == \E k \in 1..Len(elog) : elog[k].ev = "skip" /\ elog[k].version = v

\* the run is over: the operator has quit, or the connectivity check has
\* failed, or the run has returned with every version recorded or skipped
Finished ==
    \/ pc = "exited" /\ HasEvent("quit")
    \/ pc = "returned" /\ HasEvent("connect_failed")
    \/ /\ pc = "returned"
       /\ \A v \in 1..Len(prompt_versions) : Recorded(v) \/ Skipped(v)

\* C40: when the operator gives a directive at every gate and every call
\* returns or fails, run_multi_prompt_evaluation ends: each version has been
\* recorded or skipped, or the session was ended by quit or by the failed
\* connectivity check.
C40_EvaluationTerminates == <>Finished

C40_Witness ==
    /\ pc = "returned"
    /\ nquestions = MaxQuestions
    /\ Recorded(1)
    /\ Skipped(2)
    /\ reprompts = 0
    /\ \E k \in 1..Len(elog) : elog[k].ev = "validate" /\ elog[k].q = MaxQuestions

(***************************************************************************)
(* The question loop step by step (SpecSuite)                              *)
(***************************************************************************)
\* the events of kind ev for question q of version v
EventIdx(ev, v, q) ==
    {k \in 1..Len(elog) : elog[k].ev = ev /\ elog[k].version = v /\ elog[k].q = q}

\* C34: at most one question is posted and not yet answered; a question is
\* posted once, and the question after it is posted only after its own
\* call has returned and its result has been saved.
C34_OneQuestionInFlight ==
    /\ Cardinality(api_call.in_flight) <= 1
    /\ \A k \in 1..Len(elog) :
        elog[k].ev = "post" =>
            LET v == elog[k].version
                q == elog[k].q
            IN  /\ EventIdx("post", v, q) = {k}
                /\ q > 1 =>
                    \E a \in EventIdx("answer", v, q - 1) :
                    \E sv \in EventIdx("ask", v, q - 1) : a < sv /\ sv < k
                /\ \A a \in EventIdx("answer", v, q) : k < a

C34_Witness ==
    /\ api_call.in_flight = {2}
    /\ pc = "posted"
    /\ Len(db_results) = 1
    /\ EventIdx("ask", i, 1) # {}

(***************************************************************************)
(* Workers of one validate_links call (SpecPool)                           *)
(***************************************************************************)
\* C35: while a worker is in the backoff wait of one URL, a probe another
\* worker is running can complete, a queued probe can start whenever a
\* worker is free, and a finished sibling's result can be collected.
C35_BackoffIsLocalToWorker ==
    Sleeping # {} =>
        /\ \A j \in Running \ Sleeping :
            ENABLED (FinishTask /\ tasks'[j].state = "done")
        /\ \A j \in 1..Len(tasks) :
            (tasks[j].state = "queued" /\ Cardinality(Running) < pool_size) =>
                ENABLED (StartTask /\ Cardinality(Running') > Cardinality(Running))
        /\ \A j \in 1..Len(tasks) :
            (tasks[j].state = "done" /\ j \notin collected) =>
                ENABLED (CollectResult /\ j \in collected')

C35_Witness ==
    /\ Sleeping # {}
    /\ \E j \in collected : tasks[j].sleeps = 0 /\ results # <<>>

\* C38: when validate_links has returned no worker is running and every
\* submitted probe has finished and was collected; results changes only
\* in the calling thread's pass of the as_completed loop.
C38_ReturnsAfterAllProbes ==
    /\ [](ppc = "returned" =>
            /\ Running = {}
            /\ collected = 1..Len(tasks)
            /\ \A k \in 1..Len(tasks) : tasks[k].state = "done")
    /\ [][results' # results =>
            \E k \in Done \ collected :
                /\ collected' = collected \cup {k}
                /\ results' = results \o collect(urls[k], tasks[k].outcome, show_progress)
                /\ tasks' = tasks]_vars

C38_Witness ==
    /\ ppc = "returned"
    /\ Len(tasks) = MaxBatch
    /\ Len(results) >= MaxBatch
    /\ \E k \in 1..Len(tasks) : tasks[k].sleeps > 0

====
